---------------------------- MODULE Spec2Model ----------------------------
(***************************************************************************)
(* Metaprior algebra and MAP optimisation of catede/new_calculus.py, with  *)
(* the older copy kamapack/new_calculus.py modelled beside it (impl).      *)
(*                                                                         *)
(* Numbers.  The special-function library (beta_func_multivar) and scipy   *)
(* are external: their results at the inputs are drawn from small sets.    *)
(*   - finite positive reals of the linear domain are powers of two;       *)
(*     a linear value is NUMERICAL_ZERO^z * 2^e, held as [z, e];           *)
(*   - np.log / np.exp are taken in base two (the identities the code      *)
(*     relies on do not depend on the base); a log-domain value is         *)
(*     inf*NUMERICAL_INFTY + fin, held as [inf, fin];                       *)
(*   - optimiser coordinates are decimal fixed point numbers               *)
(*     h*1e-6 + l*1e-15, held as [h, l] with 0 <= l < 1e9.                 *)
(* One element of the arrays a, b is modelled: every array operation of    *)
(* the two-dimensional metaprior used here acts element by element.        *)
(***************************************************************************)
EXTENDS Integers, Sequences, FiniteSets, TLC

VARIABLES impl, pc, call, comp, obj, err, ret, evals, opt, registry

vars == <<impl, pc, call, comp, obj, err, ret, evals, opt, registry>>

---------------------------------------------------------------------------
(* Module constants, new_calculus.py lines 14-24.                          *)

MAX_ITER == 500
CUTOFFRATIO == 5
\* NUMERICAL_ZERO = 1.0e-14 : floor(log2(1e-14)), used only by Log
LOG2_NUMERICAL_ZERO == -47
\* limbs of the decimal fixed point numbers: 1e9 units of 1e-15 make 1e-6
LIMB == 1000 * 1000 * 1000
\* TOL = 1.0e-14 in units of 1e-15
TOL_UNITS == 10
\* BOUND_DIR = (1.0e-5, 1.0e3) in units of 1e-6
BOUND_LO_H == 10
BOUND_HI_H == 1000000000
\* INIT_GUESS = 1.0 in units of 1e-6
INIT_GUESS_H == 1000000
\* default rtol of numpy.isclose, 1e-5 : divide by RTOL_DIV
RTOL_DIV == 100000

FP(h, l) == [h |-> h, l |-> l]
TOL == FP(0, TOL_UNITS)
BOUND_DIR == <<FP(BOUND_LO_H, 0), FP(BOUND_HI_H, 0)>>
INIT_GUESS == FP(INIT_GUESS_H, 0)

(* _PRIOR_CHOICE, lines 27-31 *)
_PRIOR_CHOICE ==
    [ c \in {"uniform", "log-uniform", "scaled"} |->
        CASE c = "uniform"     -> [use_phi |-> TRUE,  extra |-> {}]
          [] c = "log-uniform" -> [use_phi |-> TRUE,  extra |-> {"scaling"}]
          [] c = "scaled"      -> [use_phi |-> FALSE, extra |-> {"scaling"}] ]

---------------------------------------------------------------------------
(* Bounds of the model.                                                    *)

MaxLogD == 5        \* D ranges over powers of two up to 2^MaxLogD
MaxMetaprExp == 1   \* class Metapr values are 2^0 .. 2^MaxMetaprExp
MaxScaling == 2     \* scalar scaling keywords range over -1 .. MaxScaling
MaxIterModel == 2   \* optimiser iterations explored (<= MAX_ITER)
MaxSize == 6        \* sample sizes handed to empirical_n_bins: 1 .. MaxSize
MaxCategories == 6  \* numbers of categories handed to it: 1 .. MaxCategories

---------------------------------------------------------------------------
(* Arithmetic.                                                             *)

RECURSIVE Pow2Int(_)
Pow2Int(n) == IF n = 0 THEN 1 ELSE 2 * Pow2Int(n - 1)

IsPow2(n) == \E i \in 0..30 : n = Pow2Int(i)

RECURSIVE Log2(_)
\* exact on powers of two, which is all it is applied to
Log2(n) == IF n <= 1 THEN 0 ELSE 1 + Log2(n \div 2)

\* linear domain: NUMERICAL_ZERO^z * 2^e
Lin(z, e) == [z |-> z, e |-> e]
One == Lin(0, 0)
NUMERICAL_ZERO == Lin(1, 0)
FromInt(n) == Lin(0, Log2(n))
Mul(x, y) == Lin(x.z + y.z, x.e + y.e)
Div(x, y) == Lin(x.z - y.z, x.e - y.e)

\* log domain: inf*NUMERICAL_INFTY + fin
Lg(i, f) == [inf |-> i, fin |-> f]
LZero == Lg(0, 0)
NUMERICAL_INFTY == Lg(1, 0)
LAdd(x, y) == Lg(x.inf + y.inf, x.fin + y.fin)
LNeg(x) == Lg(-x.inf, -x.fin)

\* np.log of a linear value, np.log of a positive integer, np.exp of an integer
Log(x) == Lg(0, x.e + x.z * LOG2_NUMERICAL_ZERO)
LogInt(n) == Lg(0, Log2(n))
Exp(n) == Lin(0, n)
\* np.power( D, -s )
PowNeg(D, s) == Lin(0, -(s * Log2(D)))


---------------------------------------------------------------------------
(* Inputs.                                                                 *)

Impls == {"catede", "kamapack"}
Choices == {"uniform", "log-uniform", "scaled", "bogus"}
KSet == {4, 16}

\* the `scaling` keyword of **kwargs: absent, a scalar, a sequence, a text
Kw(kind, v) == [kind |-> kind, v |-> v]
NoKw == Kw("absent", <<>>)
ScalingKw ==
    {NoKw, Kw("text", <<>>)}
    \cup {Kw("scalar", <<n>>) : n \in -1..MaxScaling}
    \cup {Kw("seq", s) : s \in {<<2>>, <<-1>>, <<1, 2>>}}

\* values of D on the grid: powers of two and the two region boundaries
DGrid(K) == {Pow2Int(i) : i \in 0..MaxLogD} \cup {Log2(K), CUTOFFRATIO * Log2(K)}

\* what the special-function library returns at one element of (a, b):
\* EA, EB the a priori expectations of classes A and B, 2^ma and 2^mb their
\* Metapr values
Points(K) ==
    {[EA |-> ea, EB |-> ea + d, ma |-> ma, mb |-> mb] :
        ea \in 1..2, d \in DGrid(K), ma \in 0..MaxMetaprExp, mb \in 0..MaxMetaprExp}

\* effective scaling as a number (a one-element array broadcasts as its element)
ScalingOf(extra) == extra["scaling"].v[1]

\* the logarithms and quotients the code takes at this input are exact
Representable(p, K, choice, extra) ==
    LET D == p.EB - p.EA IN
    /\ (_PRIOR_CHOICE[choice].use_phi /\ D < Log2(K)) => IsPow2(D)
    /\ choice = "log-uniform" => IsPow2(D)
    /\ choice = "scaled" => (ScalingOf(extra) * D) % p.EA = 0

---------------------------------------------------------------------------
(* _two_dim_metapr.__init__                                                *)

\* np.float64( kwargs["scaling"] )
Float64(kw) ==
    CASE kw.kind = "scalar" -> [raised |-> FALSE, shape |-> "scalar", v |-> kw.v]
      [] kw.kind = "seq"    -> [raised |-> FALSE, shape |-> "array", v |-> kw.v]
      [] OTHER              -> [raised |-> TRUE, shape |-> "none", v |-> <<>>]

\* mutant: the sign test written `< 0.`
ScalingTryRaises_StrictSign(kw) ==
    LET f == Float64(kw) IN
    \/ kw.kind = "absent"
    \/ f.raised
    \/ (f.shape = "array" /\ Len(f.v) # 1)
    \/ (~f.raised /\ Len(f.v) = 1 /\ f.v[1] < 0)

\* the body of the try block: TRUE when any exception leaves it
ScalingTryRaises(kw) ==
    LET f == Float64(kw) IN
    \/ kw.kind = "absent"                      \* kwargs["scaling"] : KeyError
    \/ f.raised                                \* np.float64 : ValueError
    \/ (f.shape = "array" /\ Len(f.v) # 1)     \* truth value of an array
    \/ (~f.raised /\ Len(f.v) = 1 /\ f.v[1] <= 0)  \* raise ValueError

ScalingChecked(im, choice, kw) ==
    IF im = "catede"
    THEN kw.kind # "absent" /\ "scaling" \in _PRIOR_CHOICE[choice].extra
    ELSE "scaling" \in _PRIOR_CHOICE[choice].extra

DefaultScaling == [shape |-> "scalar", v |-> <<1>>]

Fields0 == {"a", "b", "K", "choice", "_extra"}

TwoDimInit(im, p, K, choice, kw) ==
    LET base == [set |-> Fields0, K |-> K, choice |-> choice, p |-> p,
                 extra |-> [n \in {} |-> DefaultScaling],
                 class_A |-> [Expec |-> 0, Metapr |-> One],
                 class_B |-> [Expec |-> 0, Metapr |-> One],
                 D |-> 0]
    IN
    IF choice \notin DOMAIN _PRIOR_CHOICE
    THEN [err |-> "IOError", self |-> base]
    ELSE IF ScalingChecked(im, choice, kw) /\ ScalingTryRaises(kw)
    THEN [err |-> "TypeError", self |-> base]
    ELSE [err |-> "none",
          self |-> [base EXCEPT !.extra =
                      [n \in _PRIOR_CHOICE[choice].extra |->
                          IF kw.kind = "absent" THEN DefaultScaling
                          ELSE [shape |-> Float64(kw).shape, v |-> kw.v]]]]

\* DirEntr / DirCrossEntr at one element: the library's values
DirEntr(p) == [Expec |-> p.EA, Metapr |-> Lin(0, p.ma)]
DirCrossEntr(p) == [Expec |-> p.EB, Metapr |-> Lin(0, p.mb)]

BuildClasses(self, D) ==
    [self EXCEPT !.set = @ \cup {"class_A", "class_B", "D"},
                 !.class_A = DirEntr(self.p),
                 !.class_B = DirCrossEntr(self.p),
                 !.D = D]

\* mutant: the classes and D are built before the configuration is validated
DirKLdivInit_LateCheck(im, p, K, choice, kw) ==
    LET r == TwoDimInit(im, p, K, choice, kw) IN
    [err |-> r.err, self |-> BuildClasses(r.self, p.EB - p.EA), evals |-> 2]

\* mutant: the SystemError is missing
DirHelldivInit_NoRaise(im, p, K, choice, kw) ==
    LET r == TwoDimInit(im, p, K, choice, kw) IN
    IF r.err # "none" THEN [err |-> r.err, self |-> r.self, evals |-> 0]
    ELSE [err |-> "none",
          self |-> BuildClasses(r.self, K * p.EB * p.EA), evals |-> 2]

\* evals: special-function evaluations made (two aPrioriExpec calls for D)
DirKLdivInit(im, p, K, choice, kw) ==
    LET r == TwoDimInit(im, p, K, choice, kw) IN
    IF r.err # "none" THEN [err |-> r.err, self |-> r.self, evals |-> 0]
    ELSE [err |-> "none", self |-> BuildClasses(r.self, p.EB - p.EA), evals |-> 2]

DirHelldivInit(im, p, K, choice, kw) ==
    LET r == TwoDimInit(im, p, K, choice, kw) IN
    IF r.err # "none" THEN [err |-> r.err, self |-> r.self, evals |-> 0]
    ELSE [err |-> "SystemError",
          self |-> BuildClasses(r.self, K * p.EB * p.EA), evals |-> 2]


---------------------------------------------------------------------------
(* Methods of a constructed two-dimensional metaprior (one element).       *)

\* _one_dim_metapr.logMetapr
OneDimLogMetapr(cls) == Log(cls.Metapr)

\* DirKLdiv.marginaliz_phi
marginaliz_phi(self, use_phi) ==
    LET output == One
        mask == self.D < Log2(self.K)
    IN IF use_phi
       THEN IF mask THEN Div(output, FromInt(self.D))
                    ELSE Div(output, FromInt(Log2(self.K)))
       ELSE output

\* mutant: - log K instead of - log log K off the mask
log_marginaliz_phi_LogK(self, use_phi) ==
    LET output == LZero
        mask == self.D < Log2(self.K)
    IN IF use_phi
       THEN IF mask THEN LNeg(LogInt(self.D))
                    ELSE LNeg(LogInt(self.K))
       ELSE output

\* DirKLdiv.log_marginaliz_phi
log_marginaliz_phi(self, use_phi) ==
    LET output == LZero
        mask == self.D < Log2(self.K)
    IN IF use_phi
       THEN IF mask THEN LNeg(LogInt(self.D))
                    ELSE LNeg(LogInt(Log2(self.K)))
       ELSE output

\* mutant: the cutoff test written `>`
divPrior_StrictCutoff(self, output) ==
    CASE self.choice = "scaled" ->
            Mul(output, Exp(-((ScalingOf(self.extra) * self.D) \div self.class_A.Expec)))
      [] self.choice = "uniform" ->
            IF self.D > CUTOFFRATIO * Log2(self.K) THEN NUMERICAL_ZERO ELSE output
      [] self.choice = "log-uniform" ->
            Mul(output, PowNeg(self.D, ScalingOf(self.extra)))

\* _two_dim_metapr.divPrior
divPrior(self, output) ==
    CASE self.choice = "scaled" ->
            Mul(output, Exp(-((ScalingOf(self.extra) * self.D) \div self.class_A.Expec)))
      [] self.choice = "uniform" ->
            IF self.D >= CUTOFFRATIO * Log2(self.K) THEN NUMERICAL_ZERO ELSE output
      [] self.choice = "log-uniform" ->
            Mul(output, PowNeg(self.D, ScalingOf(self.extra)))

\* mutant: the log-uniform term without its scaling factor
log_divPrior_Unscaled(self, output) ==
    CASE self.choice = "scaled" ->
            LAdd(output, Lg(0, -((ScalingOf(self.extra) * self.D) \div self.class_A.Expec)))
      [] self.choice = "uniform" ->
            IF self.D >= CUTOFFRATIO * Log2(self.K) THEN LNeg(NUMERICAL_INFTY) ELSE output
      [] self.choice = "log-uniform" ->
            LAdd(output, Lg(0, -Log2(self.D)))

\* _two_dim_metapr.log_divPrior
log_divPrior(self, output) ==
    CASE self.choice = "scaled" ->
            LAdd(output, Lg(0, -((ScalingOf(self.extra) * self.D) \div self.class_A.Expec)))
      [] self.choice = "uniform" ->
            IF self.D >= CUTOFFRATIO * Log2(self.K) THEN LNeg(NUMERICAL_INFTY) ELSE output
      [] self.choice = "log-uniform" ->
            LAdd(output, Lg(0, -(ScalingOf(self.extra) * Log2(self.D))))

\* mutant: class B's factor is left out
Metapr_NoClassB(im, self) ==
    LET output1 == marginaliz_phi(self, _PRIOR_CHOICE[self.choice].use_phi)
        output2 == divPrior(self, output1)
    IN IF im = "catede"
       THEN Mul(output2, self.class_A.Metapr)
       ELSE output2

\* _two_dim_metapr.Metapr : kamapack returns after divPrior
Metapr(im, self) ==
    LET output1 == marginaliz_phi(self, _PRIOR_CHOICE[self.choice].use_phi)
        output2 == divPrior(self, output1)
    IN IF im = "catede"
       THEN Mul(output2, Mul(self.class_A.Metapr, self.class_B.Metapr))
       ELSE output2

\* _two_dim_metapr.logMetapr
logMetapr(im, self) ==
    LET output1 == log_marginaliz_phi(self, _PRIOR_CHOICE[self.choice].use_phi)
        output2 == log_divPrior(self, output1)
    IN LAdd(output2, LAdd(OneDimLogMetapr(self.class_A), OneDimLogMetapr(self.class_B)))


---------------------------------------------------------------------------
(* myMinimizer: bounds, tolerance and the saturation test.                 *)

FPLeq(x, y) == x.h < y.h \/ (x.h = y.h /\ x.l <= y.l)
FPAdd(x, y) ==
    IF x.l + y.l >= LIMB THEN FP(x.h + y.h + 1, x.l + y.l - LIMB)
                         ELSE FP(x.h + y.h, x.l + y.l)
\* x - y for x >= y
FPSub(x, y) ==
    IF x.l >= y.l THEN FP(x.h - y.h, x.l - y.l)
                  ELSE FP(x.h - y.h - 1, x.l + LIMB - y.l)
FPAbsDiff(x, y) == IF FPLeq(y, x) THEN FPSub(x, y) ELSE FPSub(y, x)
\* rtol * |b| with numpy's default rtol = 1e-5
FPRtol(b) ==
    FP(b.h \div RTOL_DIV, (b.h % RTOL_DIV) * (LIMB \div RTOL_DIV) + b.l \div RTOL_DIV)

\* np.isclose( x, b, atol=atol ) : |x - b| <= atol + rtol * |b|
isclose(x, b, atol) == FPLeq(FPAbsDiff(x, b), FPAdd(atol, FPRtol(b)))

\* mutant: only the first coordinate is tested
Saturated_FirstOnly(xs) ==
    \E j \in 1..2 : isclose(xs[1], BOUND_DIR[j], TOL)

\* np.any( [ np.any( np.isclose( x, BOUND_DIR, atol=TOL )) for x in results.x ] )
Saturated(xs) ==
    \E i \in DOMAIN xs : \E j \in 1..2 : isclose(xs[i], BOUND_DIR[j], TOL)

\* distances from a bound at which the optimiser's result is sampled: 0, half
\* TOL, TOL, 2 TOL, the first distance beyond isclose at each bound, and
\* 0.005 below the upper bound
OffsetsLo ==
    {FP(0, 0), FP(0, TOL_UNITS \div 2), FP(0, TOL_UNITS), FP(0, 2 * TOL_UNITS),
     FP(0, 100011)}
OffsetsHi ==
    {FP(0, 0), FP(0, TOL_UNITS \div 2), FP(0, TOL_UNITS), FP(0, 2 * TOL_UNITS),
     FP(5000, 0), FP(10000, 11)}

XGrid ==
    {INIT_GUESS}
    \cup {FPAdd(BOUND_DIR[1], d) : d \in OffsetsLo}
    \cup {FPSub(BOUND_DIR[2], d) : d \in OffsetsHi}

\* points L-BFGS-B could stop at, were they not excluded by its bounds
XCand == XGrid \cup {FP(BOUND_LO_H - 1, 0), FP(BOUND_HI_H + 1, 0)}

\* L-BFGS-B keeps every coordinate inside the bounds it was given
InBounds(x, b) == FPLeq(b[1], x) /\ FPLeq(x, b[2])
\* the results sampled: at most one coordinate is neither the starting point
\* nor a bound
Sampled(x) ==
    \A i, j \in DOMAIN x :
        (x[i] \notin {INIT_GUESS, BOUND_DIR[1], BOUND_DIR[2]}
         /\ x[j] \notin {INIT_GUESS, BOUND_DIR[1], BOUND_DIR[2]}) => i = j
Feasible(n, bounds) ==
    {x \in [1..n -> XCand] : Sampled(x) /\ \A i \in 1..n : InBounds(x[i], bounds[i])}

Min(a, b) == IF a <= b THEN a ELSE b
IterCap == Min(MAX_ITER, MaxIterModel)

OneDimEntries(im) ==
    IF im = "catede"
    THEN {"optimal_dirichlet_param", "optimal_entropy_param",
          "optimal_crossentropy_param", "optimal_simpson_param",
          "optimal_equal_KLdiv_param"}
    ELSE {"optimal_dirichlet_param", "optimal_entropy_param",
          "optimal_crossentropy_param"}

TwoDimEntries(im) ==
    IF im = "catede"
    THEN {"optimal_KL_divergence_params", "optimal_Hellinger_params"}
    ELSE {"optimal_KL_divergence_params"}

---------------------------------------------------------------------------
(* Functions of the concentration parameter.  The special functions of     *)
(* beta_func_multivar are kept symbolic: a term c * f(s*a + t), a being    *)
(* the parameter var[v], has the key [f, n, s, t, v] and the rational      *)
(* coefficient c; n is the exponent when f is a power of its argument and  *)
(* 0 otherwise.  A linear combination of such terms is a function from     *)
(* keys to non-zero coefficients.                                          *)

RECURSIVE GCD(_, _)
GCD(m, n) == IF n = 0 THEN m ELSE GCD(n, m % n)
Abs(n) == IF n < 0 THEN -n ELSE n

\* rationals in lowest terms with a positive denominator
Rat(n, d) ==
    LET g == GCD(Abs(n), Abs(d))
        sgn == IF d < 0 THEN -1 ELSE 1
    IN <<sgn * (n \div g), sgn * (d \div g)>>
RInt(n) == <<n, 1>>
RAdd(p, q) == Rat(p[1] * q[2] + q[1] * p[2], p[2] * q[2])
RMul(p, q) == Rat(p[1] * q[1], p[2] * q[2])
RZero == RInt(0)

Key(f, n, s, t, v) == [f |-> f, n |-> n, s |-> s, t |-> t, v |-> v]
\* LogGmm, diGmm, triGmm, quadriGmm, quintiGmm of s*a + t
Gmm(f, s, t, v) == Key(f, 0, s, t, v)
\* np.power( s*a + t, n )
Pow(n, s, t, v) == Key("pow", n, s, t, v)

LcZero == [k \in {} |-> RZero]
Term(c, k) == IF c = RZero THEN LcZero ELSE [j \in {k} |-> c]
LcCoef(e, k) == IF k \in DOMAIN e THEN e[k] ELSE RZero
\* (the operands are bound as values, so that each is computed once)
LcAdd(e1, e2) ==
    LET raw(a, b) == [k \in DOMAIN a \cup DOMAIN b |-> RAdd(LcCoef(a, k), LcCoef(b, k))]
        sum(r) == [k \in {j \in DOMAIN r : r[j] # RZero} |-> r[k]]
    IN CHOOSE s \in {sum(r) : r \in {raw(a, b) : a \in {e1}, b \in {e2}}} : TRUE
LcScale(c, e) ==
    IF c = RZero THEN LcZero
    ELSE CHOOSE s \in {[k \in DOMAIN a |-> RMul(c, a[k])] : a \in {e}} : TRUE
LcNeg(e) == LcScale(RInt(-1), e)
LcSub(e1, e2) == LcAdd(e1, LcNeg(e2))

RECURSIVE LcSum(_)
LcSum(es) == IF es = <<>> THEN LcZero ELSE LcAdd(Head(es), LcSum(Tail(es)))
\* values that are not linear in the special functions
LogOf(x) == [op |-> "log", x |-> x]
Quot(num, den) == [op |-> "quot", num |-> num, den |-> den]
Square(x) == [op |-> "square", x |-> x]
Diff(l, r) == [op |-> "sub", l |-> l, r |-> r]
Prod(l, r) == IF l = r THEN Square(l) ELSE [op |-> "prod", l |-> l, r |-> r]

---------------------------------------------------------------------------
(* CompactCounts (external): one sample over K categories, nn the distinct *)
(* counts and ff the number of categories that have each of them.          *)

RECURSIVE Dot(_, _)
Dot(nn, ff) == IF nn = <<>> THEN 0 ELSE Head(nn) * Head(ff) + Dot(Tail(nn), Tail(ff))
RECURSIVE Observed(_, _)
Observed(nn, ff) ==
    IF nn = <<>> THEN 0
    ELSE (IF Head(nn) > 0 THEN Head(ff) ELSE 0) + Observed(Tail(nn), Tail(ff))

CompactCounts(K, nn, ff) ==
    [K |-> K, Kobs |-> Observed(nn, ff), N |-> Dot(nn, ff), nn |-> nn, ff |-> ff]

\* the samples of the model, two for each K
CompSet(K) ==
    IF K = 4
    THEN {CompactCounts(4, <<0, 1, 3>>, <<1, 2, 1>>), CompactCounts(4, <<1, 2>>, <<2, 2>>)}
    ELSE {CompactCounts(16, <<0, 2>>, <<12, 4>>), CompactCounts(16, <<0, 1, 5>>, <<8, 7, 1>>)}

\* the paired object of the divergence estimators
Paired(c1, c2) == [K |-> c1.K, compact_1 |-> c1, compact_2 |-> c2]
PairSet(K) == {Paired(c1, c2) : c1 \in CompSet(K), c2 \in CompSet(K)}

\* the samples handed to the MAP entry points: one sample with unobserved
\* categories for each K, and the pairs of two different samples
MapComps(K) == {c \in CompSet(K) : c.nn[1] = 0 /\ Len(c.nn) = 3}
MapPairs(K) == {q \in PairSet(K) : q.compact_1 \in MapComps(K) /\ q.compact_2 \notin MapComps(K)}

\* compExp._ffsum( sumGens(x), dim=1 ) with x = nn + a : the ff-weighted sum
\* of f over the distinct counts
_ffsum(cmp, f, v) ==
    LcSum([k \in 1..Len(cmp.nn) |->
              Term(RInt(cmp.ff[k]), Gmm(f, 1, cmp.nn[k], v))])

---------------------------------------------------------------------------
(* BetaMultivariate_symmDir and Polya, for the parameter var[v].           *)

RECURSIVE IntPow(_, _)
IntPow(b, n) == IF n = 0 THEN 1 ELSE b * IntPow(b, n - 1)

\* mutant: log_jac without the factor K of the chain rule
BetaMultivariate_symmDir_log_jac_NoChain(K, v) ==
    LcSub(Term(RInt(K), Gmm("diGmm", 1, 0, v)), Term(RInt(1), Gmm("diGmm", K, 0, v)))

\* self.x = a, self.X = K * a
BetaMultivariate_symmDir_log(K, v) ==
    LcSub(Term(RInt(K), Gmm("LogGmm", 1, 0, v)), Term(RInt(1), Gmm("LogGmm", K, 0, v)))
BetaMultivariate_symmDir_log_jac(K, v) ==
    LcSub(Term(RInt(K), Gmm("diGmm", 1, 0, v)), Term(RInt(K), Gmm("diGmm", K, 0, v)))
BetaMultivariate_symmDir_log_hess(K, v) ==
    LcSub(Term(RInt(K), Gmm("triGmm", 1, 0, v)),
          Term(RInt(IntPow(K, 2)), Gmm("triGmm", K, 0, v)))

\* self.x = compExp.nn + a, self.X = compExp.N + K * a
Polya_log(v, cmp) ==
    LET output == LcSub(_ffsum(cmp, "LogGmm", v),
                        Term(RInt(1), Gmm("LogGmm", cmp.K, cmp.N, v)))
    IN LcSub(output, BetaMultivariate_symmDir_log(cmp.K, v))
Polya_log_jac(v, cmp) ==
    LET output == LcSub(_ffsum(cmp, "diGmm", v),
                        Term(RInt(cmp.K), Gmm("diGmm", cmp.K, cmp.N, v)))
    IN LcSub(output, BetaMultivariate_symmDir_log_jac(cmp.K, v))
Polya_log_hess(v, cmp) ==
    LET output == LcSub(_ffsum(cmp, "triGmm", v),
                        Term(RInt(IntPow(cmp.K, 2)), Gmm("triGmm", cmp.K, cmp.N, v)))
    IN LcSub(output, BetaMultivariate_symmDir_log_hess(cmp.K, v))

---------------------------------------------------------------------------
(* The one-dimensional metapriors, for the parameter var[v].               *)

\* D_diGmm( x, y ) = diGmm( x ) - diGmm( y )
D_diGmm(x, y) == LcSub(Term(RInt(1), x), Term(RInt(1), y))

DirEntr_methods(K, v) ==
    [aPrioriExpec |-> D_diGmm(Gmm("diGmm", K, 1, v), Gmm("diGmm", 1, 1, v)),
     Metapr      |-> LcSub(Term(RInt(K), Gmm("triGmm", K, 1, v)),
                           Term(RInt(1), Gmm("triGmm", 1, 1, v))),
     Metapr_jac  |-> LcSub(Term(RInt(IntPow(K, 2)), Gmm("quadriGmm", K, 1, v)),
                           Term(RInt(1), Gmm("quadriGmm", 1, 1, v))),
     Metapr_hess |-> LcSub(Term(RInt(IntPow(K, 3)), Gmm("quintiGmm", K, 1, v)),
                           Term(RInt(1), Gmm("quintiGmm", 1, 1, v)))]

\* mutant: Metapr_jac of DirSimps without the factor K of the chain rule
DirSimps_methods_NoChain(K, v) ==
    [aPrioriExpec |-> Term(RInt(K - 1), Pow(-2, K, 1, v)),
     Metapr      |-> Term(RInt(2 * K * (K - 1)), Pow(-3, K, 1, v)),
     Metapr_jac  |-> Term(RInt(-6 * K * (K - 1)), Pow(-4, K, 1, v)),
     Metapr_hess |-> Term(RInt(24 * IntPow(K, 3) * (K - 1)), Pow(-5, K, 1, v))]

DirSimps_methods(K, v) ==
    [aPrioriExpec |-> Term(RInt(K - 1), Pow(-2, K, 1, v)),
     Metapr      |-> Term(RInt(2 * K * (K - 1)), Pow(-3, K, 1, v)),
     Metapr_jac  |-> Term(RInt(-6 * IntPow(K, 2) * (K - 1)), Pow(-4, K, 1, v)),
     Metapr_hess |-> Term(RInt(24 * IntPow(K, 3) * (K - 1)), Pow(-5, K, 1, v))]

\* self._const = (self.K - 1) / self.K
equalDirKLdiv_const(K) == Rat(K - 1, K)

equalDirKLdiv_methods(K, v) ==
    [aPrioriExpec |-> Term(equalDirKLdiv_const(K), Pow(-1, 1, 0, v)),
     Metapr      |-> Term(equalDirKLdiv_const(K), Pow(-2, 1, 0, v)),
     Metapr_jac  |-> Term(RMul(RInt(-2), equalDirKLdiv_const(K)), Pow(-3, 1, 0, v)),
     Metapr_hess |-> Term(RMul(RInt(6), equalDirKLdiv_const(K)), Pow(-4, 1, 0, v))]

DirCrossEntr_methods(K, v) ==
    [aPrioriExpec |-> D_diGmm(Gmm("diGmm", K, 0, v), Gmm("diGmm", 1, 0, v)),
     Metapr      |-> LcSub(Term(RInt(1), Gmm("triGmm", 1, 0, v)),
                           Term(RInt(K), Gmm("triGmm", K, 0, v))),
     Metapr_jac  |-> LcSub(Term(RInt(1), Gmm("quadriGmm", 1, 0, v)),
                           Term(RInt(IntPow(K, 2)), Gmm("quadriGmm", K, 0, v))),
     Metapr_hess |-> LcSub(Term(RInt(1), Gmm("quintiGmm", 1, 0, v)),
                           Term(RInt(IntPow(K, 3)), Gmm("quintiGmm", K, 0, v)))]

OneDimClasses(im) ==
    IF im = "catede" THEN {"DirEntr", "DirSimps", "equalDirKLdiv", "DirCrossEntr"}
                     ELSE {"DirEntr", "equalDirKLdiv", "DirCrossEntr"}

OneDimPrimitives(cls, K, v) ==
    CASE cls = "DirEntr"       -> DirEntr_methods(K, v)
      [] cls = "DirSimps"      -> DirSimps_methods(K, v)
      [] cls = "equalDirKLdiv" -> equalDirKLdiv_methods(K, v)
      [] cls = "DirCrossEntr"  -> DirCrossEntr_methods(K, v)

\* _one_dim_metapr
_one_dim_logMetapr(o) == LogOf(o.Metapr)
_one_dim_logMetapr_jac(o) == Quot(o.Metapr_jac, o.Metapr)
_one_dim_logMetapr_hess(o) ==
    Diff(Quot(o.Metapr_hess, o.Metapr), Square(_one_dim_logMetapr_jac(o)))

OneDimMethods ==
    {"aPrioriExpec", "Metapr", "Metapr_jac", "Metapr_hess",
     "logMetapr", "logMetapr_jac", "logMetapr_hess"}

OneDimMethod(cls, K, v, m) ==
    LET o == OneDimPrimitives(cls, K, v) IN
    CASE m = "logMetapr"      -> _one_dim_logMetapr(o)
      [] m = "logMetapr_jac"  -> _one_dim_logMetapr_jac(o)
      [] m = "logMetapr_hess" -> _one_dim_logMetapr_hess(o)
      [] OTHER                -> o[m]

\* np.array( var ) keeps an integer var an integer array, and np.power of an
\* integer array to a negative integer power raises ValueError
Dtypes == {"float64", "int64"}
NegativePowerOfInt(cls, dtype) ==
    dtype = "int64" /\ cls \in {"DirSimps", "equalDirKLdiv"}

---------------------------------------------------------------------------
(* State.                                                                  *)

NoPoint == [EA |-> 0, EB |-> 0, ma |-> 0, mb |-> 0]
NoCall == [entry |-> "none", K |-> 0, choice |-> "none", kw |-> NoKw, p |-> NoPoint,
           var |-> "none"]
NoComp == [K |-> 0]
NoValue == [op |-> "none"]
NoObj ==
    [set |-> {}, K |-> 0, choice |-> "none", p |-> NoPoint,
     extra |-> [n \in {} |-> DefaultScaling],
     class_A |-> [Expec |-> 0, Metapr |-> One],
     class_B |-> [Expec |-> 0, Metapr |-> One],
     D |-> 0]
NoRet == [fn |-> "none", val |-> <<>>]
NoOpt == [invoked |-> FALSE, runs |-> 0, n |-> 0, bounds |-> <<>>,
          nfev |-> 0, njev |-> 0, iter |-> 0, f |-> NoValue, g |-> <<>>,
          x |-> <<>>, warned |-> FALSE, shown |-> FALSE, success |-> FALSE]

Init ==
    /\ impl \in Impls
    /\ pc = "idle"
    /\ call = NoCall
    /\ obj = NoObj
    /\ err = "none"
    /\ ret = NoRet
    /\ evals = 0
    /\ opt = NoOpt
    /\ comp = NoComp
    /\ registry = {}

---------------------------------------------------------------------------
(* Direct construction and use of the metaprior objects.                   *)

Construct(entry, r, K, choice, kw, p) ==
    /\ call' = [entry |-> entry, K |-> K, choice |-> choice, kw |-> kw, p |-> p,
                var |-> "float64"]
    /\ err' = r.err
    /\ obj' = r.self
    /\ evals' = r.evals
    /\ pc' = IF r.err = "none" THEN "built" ELSE "raised"
    /\ UNCHANGED <<impl, comp, ret, opt, registry>>

NewDirKLdiv ==
    /\ pc = "idle"
    /\ \E K \in KSet, choice \in Choices, kw \in ScalingKw :
       \E p \in Points(K) :
         LET r == DirKLdivInit(impl, p, K, choice, kw) IN
         /\ r.err = "none" => Representable(p, K, choice, r.self.extra)
         /\ Construct("DirKLdiv", r, K, choice, kw, p)

\* DirHelldiv exists in catede only
NewDirHelldiv ==
    /\ pc = "idle"
    /\ impl = "catede"
    /\ \E K \in KSet, choice \in Choices, kw \in ScalingKw :
       \E p \in Points(K) :
         Construct("DirHelldiv", DirHelldivInit(impl, p, K, choice, kw), K, choice, kw, p)

Method(fn, val) ==
    /\ pc = "built"
    /\ ret' = [fn |-> fn, val |-> val]
    /\ UNCHANGED <<impl, pc, call, comp, obj, err, evals, opt, registry>>

CallMarginalizPhi ==
    Method("marginaliz_phi", marginaliz_phi(obj, _PRIOR_CHOICE[obj.choice].use_phi))

CallLogMarginalizPhi ==
    Method("log_marginaliz_phi", log_marginaliz_phi(obj, _PRIOR_CHOICE[obj.choice].use_phi))

CallMetapr == Method("Metapr", Metapr(impl, obj))

CallLogMetapr == Method("logMetapr", logMetapr(impl, obj))

\* a call that builds an object and asks one value of it
Evaluate(entry, K, dtype, c, m, raises, val) ==
    /\ pc = "idle"
    /\ call' = [entry |-> entry, K |-> K, choice |-> "none", kw |-> NoKw,
                p |-> NoPoint, var |-> dtype]
    /\ comp' = c
    /\ IF raises
       THEN /\ err' = "ValueError"
            /\ pc' = "raised"
            /\ ret' = NoRet
       ELSE /\ err' = "none"
            /\ pc' = "evaluated"
            /\ ret' = [fn |-> m, val |-> val]
    /\ UNCHANGED <<impl, obj, evals, opt, registry>>

LogMethods == {"log", "log_jac", "log_hess"}
KSetOneDim == {2, 3} \cup KSet

\* BetaMultivariate_symmDir( a, K ).log(), .log_jac(), .log_hess()
CallBetaMultivariate ==
    \E K \in KSetOneDim, m \in LogMethods :
        Evaluate("BetaMultivariate_symmDir", K, "float64", NoComp, m, FALSE,
                 CASE m = "log"      -> BetaMultivariate_symmDir_log(K, 0)
                   [] m = "log_jac"  -> BetaMultivariate_symmDir_log_jac(K, 0)
                   [] m = "log_hess" -> BetaMultivariate_symmDir_log_hess(K, 0))

\* Polya( a, compExp ).log(), .log_jac(), .log_hess()
CallPolya ==
    \E K \in KSet, m \in LogMethods :
      \E c \in CompSet(K) :
        Evaluate("Polya", K, "float64", c, m, FALSE,
                 CASE m = "log"      -> Polya_log(0, c)
                   [] m = "log_jac"  -> Polya_log_jac(0, c)
                   [] m = "log_hess" -> Polya_log_hess(0, c))

\* DirEntr( a, K ), DirSimps( a, K ), equalDirKLdiv( a, K ),
\* DirCrossEntr( b, K ) and one of their seven methods
CallOneDimMetapr ==
    \E cls \in OneDimClasses(impl), K \in KSetOneDim, dtype \in Dtypes,
       m \in OneDimMethods :
        Evaluate(cls, K, dtype, NoComp, m, NegativePowerOfInt(cls, dtype),
                 OneDimMethod(cls, K, 0, m))

\* np.round( num / den ) : to the nearest integer, a half to the even one
Max(a, b) == IF a >= b THEN a ELSE b
RoundHalfEven(num, den) ==
    LET q == num \div den
        r == num % den
    IN IF 2 * r < den THEN q
       ELSE IF 2 * r > den THEN q + 1
       ELSE IF q % 2 = 0 THEN q ELSE q + 1

\* mutant: the ratio taken as size / categories
empirical_n_bins_Inverted(size, categories) ==
    LET n_bins == Max(1, RoundHalfEven(10 * size * size, categories * categories))
    IN Min(n_bins, 200)

\* mutant: without the cap
empirical_n_bins_NoCap(size, categories) ==
    Max(1, RoundHalfEven(10 * categories * categories, size * size))

\* n_bins = max( 1, np.round(10 * np.power(categories / size, 2)) )
\* n_bins = min( int(n_bins), 200 )
empirical_n_bins(size, categories) ==
    LET n_bins == Max(1, RoundHalfEven(10 * categories * categories, size * size))
    IN Min(n_bins, 200)

\* empirical_n_bins( size, categories ), in catede only
CallEmpiricalNBins ==
    /\ pc = "idle"
    /\ impl = "catede"
    /\ \E size \in 1..MaxSize, categories \in 1..MaxCategories :
        /\ call' = [entry |-> "empirical_n_bins", K |-> categories, choice |-> "none",
                    kw |-> NoKw, p |-> NoPoint, var |-> "int64", size |-> size]
        /\ ret' = [fn |-> "empirical_n_bins", val |-> empirical_n_bins(size, categories)]
    /\ pc' = "evaluated"
    /\ UNCHANGED <<impl, comp, obj, err, evals, opt, registry>>

\* the call is over: the object or the exception is dropped
Finish ==
    /\ pc \in {"built", "evaluated", "raised", "returned"}
    /\ pc' = "idle"
    /\ call' = NoCall
    /\ comp' = NoComp
    /\ obj' = NoObj
    /\ err' = "none"
    /\ ret' = NoRet
    /\ evals' = 0
    /\ opt' = NoOpt
    /\ UNCHANGED <<impl, registry>>


---------------------------------------------------------------------------
(* The MAP entry points: optimal_*_param(s) -> myMinimizer ->              *)
(* optimize.minimize -> myfunc / myjac.                                    *)

\* default of the `choice` parameter of the two-parameter entry points
DefaultChoice == "log-uniform"

\* mutant: the optimiser is started from the lower bound
StartMinimizer_FromLowerBound(entry, c, choice, kw, n) ==
    /\ pc = "idle"
    /\ call' = [entry |-> entry, K |-> c.K, choice |-> choice, kw |-> kw, p |-> NoPoint,
                var |-> "float64"]
    /\ comp' = c
    /\ opt' = [NoOpt EXCEPT !.invoked = TRUE, !.runs = @ + 1, !.n = n,
                            !.bounds = [i \in 1..n |-> BOUND_DIR],
                            !.x = [i \in 1..n |-> BOUND_DIR[1]]]
    /\ pc' = "minimize"
    /\ UNCHANGED <<impl, obj, err, ret, evals, registry>>

\* mutant: only the first coordinate is bounded by BOUND_DIR
StartMinimizer_FirstBounded(entry, c, choice, kw, n) ==
    /\ pc = "idle"
    /\ call' = [entry |-> entry, K |-> c.K, choice |-> choice, kw |-> kw, p |-> NoPoint,
                var |-> "float64"]
    /\ comp' = c
    /\ opt' = [NoOpt EXCEPT !.invoked = TRUE, !.runs = @ + 1, !.n = n,
                            !.bounds = [i \in 1..n |->
                                IF i = 1 THEN BOUND_DIR
                                ELSE <<FP(0, 0), FP(BOUND_HI_H + 1, 0)>>],
                            !.x = [i \in 1..n |-> INIT_GUESS]]
    /\ pc' = "minimize"
    /\ UNCHANGED <<impl, obj, err, ret, evals, registry>>

\* myMinimizer( myfunc, [INIT_GUESS]*n, args, jac=myjac ) : optimize.minimize
\* is called with x0 = var and bounds = (BOUND_DIR,)*len(var)
StartMinimizer(entry, c, choice, kw, n) ==
    /\ pc = "idle"
    /\ call' = [entry |-> entry, K |-> c.K, choice |-> choice, kw |-> kw, p |-> NoPoint,
                var |-> "float64"]
    /\ comp' = c
    /\ opt' = [NoOpt EXCEPT !.invoked = TRUE, !.runs = @ + 1, !.n = n,
                            !.bounds = [i \in 1..n |-> BOUND_DIR],
                            !.x = [i \in 1..n |-> INIT_GUESS]]
    /\ pc' = "minimize"
    /\ UNCHANGED <<impl, obj, err, ret, evals, registry>>

\* optimal_dirichlet_param, optimal_entropy_param, optimal_crossentropy_param,
\* optimal_simpson_param, optimal_equal_KLdiv_param
CallOptimalOneDim ==
    /\ pc = "idle"
    /\ \E entry \in OneDimEntries(impl), K \in KSet :
       \E c \in (IF entry = "optimal_equal_KLdiv_param" THEN MapPairs(K) ELSE MapComps(K)) :
         StartMinimizer(entry, c, "none", NoKw, 1)

\* optimal_KL_divergence_params, optimal_Hellinger_params
CallOptimalTwoDim ==
    /\ pc = "idle"
    /\ \E entry \in TwoDimEntries(impl), K \in KSet,
          given \in Choices \cup {"omitted"}, kw \in ScalingKw :
       \E c \in MapPairs(K) :
         StartMinimizer(entry, c, IF given = "omitted" THEN DefaultChoice ELSE given, kw, 2)

\* library values at the points the optimiser visits (their Metapr values do
\* not enter the control flow of the call)
MapPoints(K) == {p \in Points(K) : p.EA = 1 /\ p.ma = 0 /\ p.mb = 0}

\* mutant: the objective builds its metaprior without validating the choice
ObjectiveObject_NoValidation(im, c, p) ==
    LET r == IF c.entry = "optimal_Hellinger_params"
             THEN DirHelldivInit(im, p, c.K, c.choice, c.kw)
             ELSE DirKLdivInit(im, p, c.K, c.choice, c.kw)
    IN IF r.err = "IOError" THEN [r EXCEPT !.err = "none"] ELSE r

\* the metaprior object myfunc / myjac builds at the optimiser's point
ObjectiveObject(im, c, p) ==
    IF c.entry = "optimal_Hellinger_params"
    THEN DirHelldivInit(im, p, c.K, c.choice, c.kw)
    ELSE DirKLdivInit(im, p, c.K, c.choice, c.kw)

\* values of the objective and of its gradient: sums built by `+=`, negated
Neg(x) == [op |-> "neg", x |-> x]
Sum(ts) == [op |-> "sum", terms |-> ts]
\* what a method of the two-dimensional metaprior built from (var, K, choice,
\* kwargs) returns: logMetapr(), logMetapr_jac() by column
MetaprCall(c, fn, col) ==
    [op |-> "call", fn |-> fn, col |-> col, K |-> c.K, choice |-> c.choice,
     kw |-> c.kw]

\* myfunc of each entry point, at var, for args = (comp, ...)
myfunc(im, c, cmp, meta) ==
    CASE c.entry = "optimal_dirichlet_param" ->
            Neg(Sum(<<Polya_log(0, cmp)>>))
      [] c.entry = "optimal_entropy_param" ->
            Neg(Sum(<<_one_dim_logMetapr(DirEntr_methods(cmp.K, 0)), Polya_log(0, cmp)>>))
      [] c.entry = "optimal_crossentropy_param" ->
            Neg(Sum(<<_one_dim_logMetapr(DirCrossEntr_methods(cmp.K, 0)), Polya_log(0, cmp)>>))
      [] c.entry = "optimal_simpson_param" ->
            Neg(Sum(<<_one_dim_logMetapr(DirSimps_methods(cmp.K, 0)), Polya_log(0, cmp)>>))
      [] c.entry = "optimal_equal_KLdiv_param" ->
            Neg(Sum(<<_one_dim_logMetapr(equalDirKLdiv_methods(cmp.K, 0)),
                      Polya_log(0, cmp.compact_1), Polya_log(0, cmp.compact_2)>>))
      [] OTHER ->
            Neg(Sum(<<meta, Polya_log(0, cmp.compact_1), Polya_log(1, cmp.compact_2)>>))

\* mutant: the Polya derivatives of the two-parameter gradient are added to
\* the other column
myjac_SwappedColumns(im, c, cmp) ==
    CASE c.entry = "optimal_dirichlet_param" ->
            <<Neg(Sum(<<Polya_log_jac(0, cmp)>>))>>
      [] c.entry = "optimal_entropy_param" ->
            <<Neg(Sum(<<_one_dim_logMetapr_jac(DirEntr_methods(cmp.K, 0)),
                        Polya_log_jac(0, cmp)>>))>>
      [] c.entry = "optimal_crossentropy_param" ->
            <<Neg(Sum(<<_one_dim_logMetapr_jac(DirCrossEntr_methods(cmp.K, 0)),
                        Polya_log_jac(0, cmp)>>))>>
      [] c.entry = "optimal_simpson_param" ->
            <<Neg(Sum(<<_one_dim_logMetapr_jac(DirSimps_methods(cmp.K, 0)),
                        Polya_log_jac(0, cmp)>>))>>
      [] c.entry = "optimal_equal_KLdiv_param" ->
            <<Neg(Sum(<<_one_dim_logMetapr_jac(equalDirKLdiv_methods(cmp.K, 0)),
                        Polya_log_jac(0, cmp.compact_1), Polya_log_jac(0, cmp.compact_2)>>))>>
      [] OTHER ->
            <<Neg(Sum(<<MetaprCall(c, "logMetapr_jac", 0),
                        Polya_log_jac(1, cmp.compact_2)>>)),
              Neg(Sum(<<MetaprCall(c, "logMetapr_jac", 1),
                        Polya_log_jac(0, cmp.compact_1)>>))>>

\* myjac of each entry point: one entry for each column of the gradient
myjac(im, c, cmp) ==
    CASE c.entry = "optimal_dirichlet_param" ->
            <<Neg(Sum(<<Polya_log_jac(0, cmp)>>))>>
      [] c.entry = "optimal_entropy_param" ->
            <<Neg(Sum(<<_one_dim_logMetapr_jac(DirEntr_methods(cmp.K, 0)),
                        Polya_log_jac(0, cmp)>>))>>
      [] c.entry = "optimal_crossentropy_param" ->
            <<Neg(Sum(<<_one_dim_logMetapr_jac(DirCrossEntr_methods(cmp.K, 0)),
                        Polya_log_jac(0, cmp)>>))>>
      [] c.entry = "optimal_simpson_param" ->
            <<Neg(Sum(<<_one_dim_logMetapr_jac(DirSimps_methods(cmp.K, 0)),
                        Polya_log_jac(0, cmp)>>))>>
      [] c.entry = "optimal_equal_KLdiv_param" ->
            <<Neg(Sum(<<_one_dim_logMetapr_jac(equalDirKLdiv_methods(cmp.K, 0)),
                        Polya_log_jac(0, cmp.compact_1), Polya_log_jac(0, cmp.compact_2)>>))>>
      [] OTHER ->
            <<Neg(Sum(<<MetaprCall(c, "logMetapr_jac", 0),
                        Polya_log_jac(0, cmp.compact_1)>>)),
              Neg(Sum(<<MetaprCall(c, "logMetapr_jac", 1),
                        Polya_log_jac(1, cmp.compact_2)>>))>>

\* mutant: Polya adds the parameter to the counts in place (nn += a at a = 1)
InPlaceCounts(c) ==
    LET bump(nn) == [k \in DOMAIN nn |-> nn[k] + 1]
    IN IF "nn" \in DOMAIN c THEN [c EXCEPT !.nn = bump(@)]
                            ELSE [c EXCEPT !.compact_1.nn = bump(@)]
EvalObjective_InPlace ==
    /\ pc = "minimize"
    /\ comp' = InPlaceCounts(comp)
    /\ IF opt.n = 1
       THEN /\ opt' = [opt EXCEPT !.nfev = @ + 1,
                                  !.f = myfunc(impl, call, comp, NoValue)]
            /\ pc' = "gradient"
            /\ UNCHANGED <<obj, err, evals>>
       ELSE \E p \in MapPoints(call.K) :
            LET r == ObjectiveObject(impl, call, p) IN
            /\ obj' = r.self
            /\ evals' = evals + r.evals
            /\ err' = r.err
            /\ IF r.err = "none"
               THEN /\ opt' = [opt EXCEPT
                                !.nfev = @ + 1,
                                !.f = myfunc(impl, call, comp,
                                             MetaprCall(call, "logMetapr", 0))]
                    /\ pc' = "gradient"
               ELSE /\ pc' = "raised"
                    /\ UNCHANGED opt
    /\ UNCHANGED <<impl, call, ret, registry>>

\* optimize.minimize evaluates myfunc at its current point
EvalObjective ==
    /\ pc = "minimize"
    /\ IF opt.n = 1
       THEN /\ opt' = [opt EXCEPT !.nfev = @ + 1,
                                  !.f = myfunc(impl, call, comp, NoValue)]
            /\ pc' = "gradient"
            /\ UNCHANGED <<obj, err, evals>>
       ELSE \E p \in MapPoints(call.K) :
            LET r == ObjectiveObject(impl, call, p) IN
            /\ obj' = r.self
            /\ evals' = evals + r.evals
            /\ err' = r.err
            /\ IF r.err = "none"
               THEN /\ opt' = [opt EXCEPT
                                !.nfev = @ + 1,
                                !.f = myfunc(impl, call, comp,
                                             MetaprCall(call, "logMetapr", 0))]
                    /\ pc' = "gradient"
               ELSE /\ pc' = "raised"
                    /\ UNCHANGED opt
    /\ UNCHANGED <<impl, call, comp, ret, registry>>

\* optimize.minimize evaluates myjac at the same point (USE_JAC_OPT is True)
EvalGradient ==
    /\ pc = "gradient"
    /\ IF opt.n = 1
       THEN UNCHANGED evals
       ELSE \E p \in MapPoints(call.K) :
            evals' = evals + ObjectiveObject(impl, call, p).evals
    /\ opt' = [opt EXCEPT !.njev = @ + 1, !.g = myjac(impl, call, comp)]
    /\ obj' = NoObj
    /\ pc' = "step"
    /\ UNCHANGED <<impl, call, comp, err, ret, registry>>

\* mutant: the iteration count is not compared with maxiter
Iterate_NoCap ==
    /\ pc = "step"
    /\ opt' = [opt EXCEPT !.iter = IF @ < IterCap THEN @ + 1 ELSE @]
    /\ pc' = "minimize"
    /\ UNCHANGED <<impl, call, comp, obj, err, ret, evals, registry>>

\* one more L-BFGS-B iteration, at most maxiter of them
Iterate ==
    /\ pc = "step"
    /\ opt.iter < IterCap
    /\ opt' = [opt EXCEPT !.iter = @ + 1]
    /\ pc' = "minimize"
    /\ UNCHANGED <<impl, call, comp, obj, err, ret, evals, registry>>

\* warnings.warn( text ) under Python's default filter: the warning is shown
\* unless its key (text, category, line) is already in the module's
\* __warningregistry__, and the key is entered there
WarningKey == "The optimal parameter(s) saturated to the boundary."
Shown(reg) == WarningKey \notin reg
Registered(reg) == reg \cup {WarningKey}

\* optimize.minimize returns results; myMinimizer tests saturation, warns and
\* returns results.x, the rest of results being dropped
MinimizerReturn ==
    /\ pc = "step"
    /\ \E x \in Feasible(opt.n, opt.bounds), ok \in BOOLEAN :
        /\ opt' = [opt EXCEPT !.x = x, !.success = ok, !.warned = Saturated(x),
                              !.shown = Saturated(x) /\ Shown(registry),
                              !.f = NoValue, !.g = <<>>]
        /\ registry' = IF Saturated(x) THEN Registered(registry) ELSE registry
        /\ ret' = [fn |-> call.entry, val |-> x]
    /\ pc' = "returned"
    /\ UNCHANGED <<impl, call, comp, obj, err, evals>>

---------------------------------------------------------------------------
(* Gradient and Hessian of the two-dimensional metaprior, at one element.  *)
(* Their entries are kept symbolic: a product of powers of the quantities  *)
(* A = class_A.aPrioriExpec(), B = class_B.aPrioriExpec(), D = self.D,     *)
(* M_A = class_A.Metapr(), dM_A = class_A.Metapr_jac(), d2M_A =            *)
(* class_A.Metapr_hess() (likewise for class_B) and of the two numerical   *)
(* constants is a function from their names to non-zero exponents, and an  *)
(* entry is a linear combination of such products.                         *)

Var(name) == [x \in {name} |-> 1]
MExp(m, x) == IF x \in DOMAIN m THEN m[x] ELSE 0
MMul(m1, m2) ==
    LET raw == [x \in DOMAIN m1 \cup DOMAIN m2 |-> MExp(m1, x) + MExp(m2, x)]
    IN [x \in {y \in DOMAIN raw : raw[y] # 0} |-> raw[x]]
\* np.power( m, n ), n # 0
MPow(m, n) == [x \in DOMAIN m |-> n * m[x]]
MDiv(m1, m2) == MMul(m1, MPow(m2, -1))

\* an array filled with NUMERICAL_ZERO, with - NUMERICAL_INFTY, with zeros
ZeroEntry == Term(RInt(1), Var("NUMERICAL_ZERO"))
NegInftyEntry == Term(RInt(-1), Var("NUMERICAL_INFTY"))
Filled2(e) == <<e, e>>
Filled22(e) == <<<<e, e>>, <<e, e>>>>

\* mask = self.D < np.log(self.K)
DMask(self) == self.D < Log2(self.K)
\* self.D >= CUTOFFRATIO * np.log(self.K)
AboveCutoff(self) == self.D >= CUTOFFRATIO * Log2(self.K)
ScalingCoef(self) == RInt(ScalingOf(self.extra))

\* the entries DirKLdiv.log_marginaliz_phi_jac assigns where mask holds
phi_jac_masked ==
    <<Term(RInt(1), MDiv(Var("M_A"), Var("D"))),
      Term(RInt(1), MDiv(Var("M_B"), Var("D")))>>

\* DirKLdiv.log_marginaliz_phi_jac
log_marginaliz_phi_jac(self, use_phi) ==
    LET output == Filled2(LcZero)
    IN IF use_phi /\ DMask(self) THEN phi_jac_masked ELSE output

\* the entries DirKLdiv.log_marginaliz_phi_hess assigns where mask holds
phi_hess_masked ==
    LET o01 == Term(RInt(1), MDiv(MMul(Var("M_A"), Var("M_B")), MPow(Var("D"), 2)))
    IN <<<<LcAdd(Term(RInt(1), MDiv(Var("dM_A"), Var("D"))),
                 Term(RInt(1), MPow(MDiv(Var("M_A"), Var("D")), 2))),
           o01>>,
         <<o01,
           LcAdd(Term(RInt(1), MDiv(Var("dM_B"), Var("D"))),
                 Term(RInt(1), MPow(MDiv(Var("M_B"), Var("D")), 2)))>>>>

\* DirKLdiv.log_marginaliz_phi_hess
log_marginaliz_phi_hess(self, use_phi) ==
    LET output == Filled22(LcZero)
    IN IF use_phi /\ DMask(self) THEN phi_hess_masked ELSE output

\* _two_dim_metapr.log_divPrior_jac
log_divPrior_jac(self, output) ==
    CASE self.choice = "scaled" ->
            <<LcAdd(output[1],
                    Term(ScalingCoef(self),
                         MMul(MMul(Var("B"), Var("M_A")), MPow(Var("A"), -2)))),
              LcAdd(output[2], Term(ScalingCoef(self), MDiv(Var("M_B"), Var("A"))))>>
      [] self.choice = "uniform" ->
            LET o1 == IF ~DMask(self) THEN Filled2(ZeroEntry) ELSE output
            IN IF AboveCutoff(self) THEN Filled2(NegInftyEntry) ELSE o1
      [] self.choice = "log-uniform" ->
            <<LcAdd(output[1], Term(ScalingCoef(self), MDiv(Var("M_A"), Var("D")))),
              LcAdd(output[2], Term(ScalingCoef(self), MDiv(Var("M_B"), Var("D"))))>>

\* mutant: the Hessian is clamped above the cutoff only
log_divPrior_hess_CutoffOnly(self, output) ==
    CASE self.choice = "uniform" ->
            IF AboveCutoff(self) THEN Filled22(NegInftyEntry) ELSE output
      [] OTHER -> output

\* mutant: the mixed term is added to entry [0,1] only
log_divPrior_hess_OneSided(self, output) ==
    CASE self.choice = "scaled" ->
            LET aux_sym == Term(RMul(RInt(-1), ScalingCoef(self)),
                                MMul(MMul(Var("M_B"), Var("M_A")), MPow(Var("A"), -2)))
            IN <<<<output[1][1], LcAdd(output[1][2], aux_sym)>>, output[2]>>
      [] self.choice = "uniform" ->
            LET o1 == IF ~DMask(self) THEN Filled22(ZeroEntry) ELSE output
            IN IF AboveCutoff(self) THEN Filled22(NegInftyEntry) ELSE o1
      [] self.choice = "log-uniform" ->
            LET aux_sym == Term(ScalingCoef(self),
                                MDiv(MMul(Var("M_A"), Var("M_B")), MPow(Var("D"), 2)))
            IN <<<<output[1][1], LcAdd(output[1][2], aux_sym)>>, output[2]>>

\* _two_dim_metapr.log_divPrior_hess
log_divPrior_hess(self, output) ==
    CASE self.choice = "scaled" ->
            LET aux_sym == Term(RMul(RInt(-1), ScalingCoef(self)),
                                MMul(MMul(Var("M_B"), Var("M_A")), MPow(Var("A"), -2)))
            IN <<<<LcAdd(output[1][1],
                         LcScale(ScalingCoef(self),
                                 LcSub(Term(RInt(1), MMul(Var("B"),
                                                MMul(Var("dM_A"), MPow(Var("A"), -2)))),
                                       Term(RInt(2), MMul(Var("B"),
                                                MMul(MPow(Var("M_A"), 2),
                                                     MPow(Var("A"), -3))))))),
                   LcAdd(output[1][2], aux_sym)>>,
                 <<LcAdd(output[2][1], aux_sym),
                   LcAdd(output[2][2],
                         Term(ScalingCoef(self), MDiv(Var("dM_B"), Var("A"))))>>>>
      [] self.choice = "uniform" ->
            LET o1 == IF ~DMask(self) THEN Filled22(ZeroEntry) ELSE output
            IN IF AboveCutoff(self) THEN Filled22(NegInftyEntry) ELSE o1
      [] self.choice = "log-uniform" ->
            LET aux_sym == Term(ScalingCoef(self),
                                MDiv(MMul(Var("M_A"), Var("M_B")), MPow(Var("D"), 2)))
            IN <<<<LcAdd(output[1][1],
                         LcAdd(Term(ScalingCoef(self), MDiv(Var("dM_A"), Var("D"))),
                               Term(RInt(1), MPow(MDiv(Var("M_A"), Var("D")), 2)))),
                   LcAdd(output[1][2], aux_sym)>>,
                 <<LcAdd(output[2][1], aux_sym),
                   LcAdd(output[2][2],
                         LcAdd(Term(ScalingCoef(self), MDiv(Var("dM_B"), Var("D"))),
                               Term(RInt(1), MPow(MDiv(Var("M_B"), Var("D")), 2))))>>>>

\* _one_dim_metapr.logMetapr_jac and logMetapr_hess of class_A ("A") and of
\* class_B ("B")
class_logMetapr_jac(c) == Term(RInt(1), MDiv(Var("dM_" \o c), Var("M_" \o c)))
class_logMetapr_hess(c) ==
    LcSub(Term(RInt(1), MDiv(Var("d2M_" \o c), Var("M_" \o c))),
          Term(RInt(1), MPow(MDiv(Var("dM_" \o c), Var("M_" \o c)), 2)))

\* _two_dim_metapr.logMetapr_jac
logMetapr_jac(self) ==
    LET output1 == log_marginaliz_phi_jac(self, _PRIOR_CHOICE[self.choice].use_phi)
        output2 == log_divPrior_jac(self, output1)
    IN <<LcAdd(output2[1], class_logMetapr_jac("A")),
         LcAdd(output2[2], class_logMetapr_jac("B"))>>

\* _two_dim_metapr.logMetapr_hess
logMetapr_hess(self) ==
    LET output1 == log_marginaliz_phi_hess(self, _PRIOR_CHOICE[self.choice].use_phi)
        output2 == log_divPrior_hess(self, output1)
    IN <<<<LcAdd(output2[1][1], class_logMetapr_hess("A")), output2[1][2]>>,
         <<output2[2][1], LcAdd(output2[2][2], class_logMetapr_hess("B"))>>>>

CallLogMetaprJac == Method("logMetapr_jac", logMetapr_jac(obj))

CallLogMetaprHess == Method("logMetapr_hess", logMetapr_hess(obj))

\* mutant: the Polya Hessians are added to the whole matrix
KL_posterior_hess_Broadcast(self, cmp) ==
    LET h == logMetapr_hess(self)
        both(e) == Sum(<<e, Polya_log_hess(0, cmp.compact_1),
                         Polya_log_hess(1, cmp.compact_2)>>)
    IN <<<<both(h[1][1]), both(h[1][2])>>, <<both(h[2][1]), both(h[2][2])>>>>

\* log_KL_divergence_meta_posterior_hess (log_meta_posterior_hess in
\* kamapack), self being the DirKLdiv object it builds: each entry is the sum
\* of what is added to it
KL_posterior_hess(self, cmp) ==
    LET hess_LogLike == logMetapr_hess(self)
    IN <<<<Sum(<<hess_LogLike[1][1], Polya_log_hess(0, cmp.compact_1)>>),
           Sum(<<hess_LogLike[1][2]>>)>>,
         <<Sum(<<hess_LogLike[2][1]>>),
           Sum(<<hess_LogLike[2][2], Polya_log_hess(1, cmp.compact_2)>>)>>>>

KLHessEntry(im) ==
    IF im = "catede" THEN "log_KL_divergence_meta_posterior_hess"
                     ELSE "log_meta_posterior_hess"

\* the values of D the Hessian is asked at: every region of every choice
HessPoints(K) == {p \in Points(K) : p.EA = 1 /\ p.ma = 0 /\ p.mb = 0}

\* log_KL_divergence_meta_posterior_hess( var, comp, choice, kwargs )
CallKLPosteriorHess ==
    /\ pc = "idle"
    /\ \E K \in KSet, choice \in Choices, kw \in ScalingKw :
       \E p \in HessPoints(K), c \in MapPairs(K) :
         LET r == DirKLdivInit(impl, p, K, choice, kw) IN
         /\ call' = [entry |-> KLHessEntry(impl), K |-> K, choice |-> choice,
                     kw |-> kw, p |-> p, var |-> "float64"]
         /\ comp' = c
         /\ obj' = r.self
         /\ evals' = r.evals
         /\ err' = r.err
         /\ IF r.err = "none"
            THEN /\ pc' = "evaluated"
                 /\ ret' = [fn |-> KLHessEntry(impl), val |-> KL_posterior_hess(r.self, c)]
            ELSE /\ pc' = "raised"
                 /\ ret' = NoRet
    /\ UNCHANGED <<impl, opt, registry>>

\* log_equal_KLdiv_meta_posterior_hess
equal_KLdiv_posterior_hess(cmp) ==
    Sum(<<_one_dim_logMetapr_hess(equalDirKLdiv_methods(cmp.K, 0)),
          Polya_log_hess(0, cmp.compact_1), Polya_log_hess(0, cmp.compact_2)>>)

\* log_equal_KLdiv_meta_posterior_hess( var, comp ), in catede only
CallEqualKLPosteriorHess ==
    /\ impl = "catede"
    /\ \E K \in KSet, dtype \in Dtypes :
       \E c \in PairSet(K) :
         Evaluate("log_equal_KLdiv_meta_posterior_hess", K, dtype, c,
                  "log_equal_KLdiv_meta_posterior_hess",
                  NegativePowerOfInt("equalDirKLdiv", dtype),
                  equal_KLdiv_posterior_hess(c))

---------------------------------------------------------------------------

Next ==
    \/ NewDirKLdiv
    \/ NewDirHelldiv
    \/ CallMarginalizPhi
    \/ CallLogMarginalizPhi
    \/ CallMetapr
    \/ CallLogMetapr
    \/ CallLogMetaprJac
    \/ CallLogMetaprHess
    \/ CallKLPosteriorHess
    \/ CallEqualKLPosteriorHess
    \/ CallBetaMultivariate
    \/ CallPolya
    \/ CallOneDimMetapr
    \/ CallEmpiricalNBins
    \/ CallOptimalOneDim
    \/ CallOptimalTwoDim
    \/ EvalObjective
    \/ EvalGradient
    \/ Iterate
    \/ MinimizerReturn
    \/ Finish

Spec == Init /\ [][Next]_vars

\* the MAP entry points alone; a call in progress is run to its end, the
\* interpreter executing the next statement of the only thread of the call
NextMAP ==
    \/ CallOptimalOneDim
    \/ CallOptimalTwoDim
    \/ EvalObjective
    \/ EvalGradient
    \/ Iterate
    \/ MinimizerReturn
    \/ Finish

InitMAP == Init /\ impl = "catede"
FairSpec == InitMAP /\ [][NextMAP]_vars /\ WF_vars(NextMAP)


---------------------------------------------------------------------------
(* Properties.                                                             *)

Built == pc = "built"
Raised == pc = "raised"
AcceptsScaling(choice) ==
    choice \in DOMAIN _PRIOR_CHOICE /\ "scaling" \in _PRIOR_CHOICE[choice].extra
Unrecognized(choice) == choice \notin {"uniform", "log-uniform", "scaled"}
ClassFields == {"class_A", "class_B", "D"}

\* the derivative with respect to var[j], by the rules of the calculus:
\* d/da f(s*a + t) = s * f'(s*a + t), the polygamma functions following one
\* another, d/da (s*a + t)^n = n * s * (s*a + t)^(n-1), and a term in the
\* other parameter is a constant
NextGmm ==
    [f \in {"LogGmm", "diGmm", "triGmm", "quadriGmm", "quintiGmm"} |->
        CASE f = "LogGmm"    -> "diGmm"
          [] f = "diGmm"     -> "triGmm"
          [] f = "triGmm"    -> "quadriGmm"
          [] f = "quadriGmm" -> "quintiGmm"
          [] f = "quintiGmm" -> "sextiGmm"]
DKey(k) ==
    IF k.f = "pow" THEN Pow(k.n - 1, k.s, k.t, k.v)
                   ELSE Gmm(NextGmm[k.f], k.s, k.t, k.v)
DFactor(k) == IF k.f = "pow" THEN RInt(k.n * k.s) ELSE RInt(k.s)
DerivBy(e, j) ==
    LET ks == {k \in DOMAIN e : k.v = j}
        pick(S) == CHOOSE k \in S : TRUE
        seqOf[S \in SUBSET ks] ==
            IF S = {} THEN <<>>
            ELSE <<Term(RMul(DFactor(pick(S)), e[pick(S)]), DKey(pick(S)))>>
                 \o seqOf[S \ {pick(S)}]
    IN LcSum(seqOf[ks])
\* d/da log(M) = M'/M ;  d/da (N/M) = N'/M - (N/M)*(M'/M)
DLogOf(v, j) == Quot(DerivBy(v.x, j), v.x)
DQuot(q, j) ==
    Diff(Quot(DerivBy(q.num, j), q.den), Prod(q, Quot(DerivBy(q.den, j), q.den)))

\* a scaling keyword the validation is expected to refuse: a scalar <= 0, a
\* text, a sequence of several elements, a one-element sequence holding a
\* number <= 0
Rejectable(kw) ==
    \/ kw.kind = "text"
    \/ (kw.kind = "scalar" /\ kw.v[1] <= 0)
    \/ (kw.kind = "seq" /\ (Len(kw.v) # 1 \/ kw.v[1] <= 0))

\* a scaling keyword that is not a positive scalar
InvalidScaling(kw) ==
    \/ kw.kind \in {"text", "seq"}
    \/ (kw.kind = "scalar" /\ kw.v[1] <= 0)

\* C1: a DirKLdiv built with an unrecognized choice ends in IOError, raised
\* before any special-function evaluation on (a, b) and before class_A,
\* class_B or D exist (a and b have only been stored as one-dimensional arrays)
C1_UnknownChoiceRaisesFirst ==
    (call.entry = "DirKLdiv" /\ Unrecognized(call.choice))
        => /\ Raised
           /\ err = "IOError"
           /\ evals = 0
           /\ obj.set \cap ClassFields = {}

C1_Witness ==
    /\ Raised /\ call.entry = "DirKLdiv" /\ call.choice = "bogus"
    /\ err = "IOError" /\ obj.set = Fields0

C3_DefaultScaling ==
    (/\ call.entry \in {"DirKLdiv", "optimal_KL_divergence_params"}
     /\ AcceptsScaling(call.choice)
     /\ call.kw = NoKw)
        => /\ err = "none"
           /\ ~Raised
           /\ "_extra" \in obj.set => obj.extra = [n \in {"scaling"} |-> DefaultScaling]


TwoDimMAP == {"optimal_KL_divergence_params", "optimal_Hellinger_params"}
ConfigError == {"IOError", "TypeError"}

\* C4 as stated, read on catede: in the two-parameter entry points a configuration error is
\* raised before the optimiser is invoked
C4_Original ==
    (/\ impl = "catede" /\ call.entry \in TwoDimMAP
     /\ Unrecognized(call.choice) \/ (AcceptsScaling(call.choice) /\ Rejectable(call.kw))
     /\ err \in ConfigError)
        => ~opt.invoked

\* C4 amended: the configuration error is raised inside the optimiser's first
\* objective evaluation: myMinimizer / optimize.minimize has been invoked, but
\* no objective or gradient value has been produced, no iteration has run and
\* no special function has been evaluated; a call with an unrecognized choice,
\* or with a refused scaling for a choice that accepts scaling, never gets an
\* objective value and never returns
C4_RejectedAtFirstEvaluation ==
    call.entry \in TwoDimMAP =>
        /\ err \in ConfigError
              => /\ Raised /\ opt.invoked
                 /\ opt.nfev = 0 /\ opt.njev = 0 /\ opt.iter = 0
                 /\ evals = 0
        /\ (Unrecognized(call.choice)
             \/ (AcceptsScaling(call.choice) /\ Rejectable(call.kw)))
              => (opt.nfev = 0 /\ pc \in {"minimize", "raised"})

C4_Witness ==
    /\ Raised /\ call.entry = "optimal_KL_divergence_params"
    /\ call.choice = "bogus" /\ err = "IOError" /\ opt.invoked /\ opt.nfev = 0

Hell == {"DirHelldiv", "optimal_Hellinger_params"}

\* C5 as stated: whatever the input, unrecognized choice and invalid scaling
\* included, the Hellinger metaprior fails with the not-implemented signal
C5_Original ==
    (call.entry \in Hell /\ Raised) => err = "SystemError"

\* C5 amended: constructing the Hellinger metaprior always fails and no
\* metaprior value is computed from it: with IOError for an unrecognized
\* choice and TypeError for a refused scaling (the base class validates
\* first), and otherwise with SystemError, raised once class_A, class_B and D
\* are built; optimal_Hellinger_params never gets an objective value and
\* never returns
C5_HellingerAlwaysFails ==
    call.entry \in Hell =>
        /\ pc \in {"minimize", "raised"}
        /\ ret = NoRet
        /\ opt.nfev = 0
        /\ Raised =>
            err = IF Unrecognized(call.choice) THEN "IOError"
                  ELSE IF /\ AcceptsScaling(call.choice)
                          /\ call.kw # NoKw
                          /\ Rejectable(call.kw) THEN "TypeError"
                  ELSE "SystemError"
        /\ (Raised /\ err = "SystemError") => ClassFields \subseteq obj.set

C5_Witness ==
    /\ Raised /\ call.entry = "DirHelldiv" /\ err = "SystemError"
    /\ call.choice = "uniform" /\ call.kw = Kw("scalar", <<-1>>)


KLBuilt == Built /\ call.entry = "DirKLdiv"
Clamped == obj.D >= CUTOFFRATIO * Log2(obj.K)
ClassProduct == Mul(obj.class_A.Metapr, obj.class_B.Metapr)
ClassLogSum == LAdd(Log(obj.class_A.Metapr), Log(obj.class_B.Metapr))

\* C6 as stated, read on catede: with choice uniform and D at or above CUTOFFRATIO*log(K),
\* Metapr() is NUMERICAL_ZERO and logMetapr() is -NUMERICAL_INFTY
C6_Original ==
    (impl = "catede" /\ KLBuilt /\ obj.choice = "uniform" /\ Clamped) =>
        /\ ret.fn = "Metapr" => ret.val = NUMERICAL_ZERO
        /\ ret.fn = "logMetapr" => ret.val = LNeg(NUMERICAL_INFTY)

\* C6 amended: there the running value is clamped before the class terms are
\* folded in: Metapr() is NUMERICAL_ZERO * A.Metapr * B.Metapr in catede
\* (NUMERICAL_ZERO itself in kamapack, which folds no class factor into
\* Metapr) and logMetapr() is -NUMERICAL_INFTY + A.logMetapr + B.logMetapr
C6_ClampedUniform ==
    (KLBuilt /\ obj.choice = "uniform" /\ Clamped) =>
        /\ ret.fn = "Metapr" =>
              ret.val = IF impl = "catede" THEN Mul(NUMERICAL_ZERO, ClassProduct)
                                           ELSE NUMERICAL_ZERO
        /\ ret.fn = "logMetapr" =>
              ret.val = LAdd(LNeg(NUMERICAL_INFTY), ClassLogSum)

C6_Witness ==
    /\ KLBuilt /\ obj.choice = "uniform" /\ impl = "catede"
    /\ obj.D = CUTOFFRATIO * Log2(obj.K)
    /\ ret.fn = "Metapr" /\ ClassProduct # One

\* the value C7 gives for marginaliz_phi at one element
PhiClaimed ==
    IF obj.choice \in {"uniform", "log-uniform"}
    THEN IF obj.D < Log2(obj.K) THEN Div(One, FromInt(obj.D))
                                ELSE Div(One, FromInt(Log2(obj.K)))
    ELSE One

\* C7: marginaliz_phi is 1/D where D < log(K) and 1/log(K) elsewhere for
\* uniform and log-uniform, 1 for scaled; log_marginaliz_phi is its logarithm
C7_MarginalizPhi ==
    KLBuilt =>
        /\ ret.fn = "marginaliz_phi" => ret.val = PhiClaimed
        /\ ret.fn = "log_marginaliz_phi" => ret.val = Log(PhiClaimed)

C7_Witness ==
    /\ KLBuilt /\ obj.choice = "log-uniform" /\ obj.D = Log2(obj.K)
    /\ ret.fn = "log_marginaliz_phi" /\ ret.val = Lg(0, -Log2(Log2(obj.K)))

\* the divergence-shape prior rho(D) on its own
ShapePrior == divPrior(obj, One)
PhiFactor == marginaliz_phi(obj, _PRIOR_CHOICE[obj.choice].use_phi)

\* C8 as stated, read on catede: Metapr() is marginaliz_phi * divPrior * A.Metapr * B.Metapr
\* for every choice and every (a, b)
C8_Original ==
    (impl = "catede" /\ KLBuilt /\ ret.fn = "Metapr") =>
        ret.val = Mul(PhiFactor, Mul(ShapePrior, ClassProduct))

\* C8 amended: in catede Metapr() is that product of four factors for scaled,
\* for log-uniform and for uniform with D < CUTOFFRATIO*log(K); for uniform
\* with D >= CUTOFFRATIO*log(K) the divPrior step overwrites the
\* marginaliz_phi factor and Metapr() is NUMERICAL_ZERO * A.Metapr * B.Metapr;
\* in kamapack Metapr() leaves the two class factors out in every case
C8_MetaprFactors ==
    (KLBuilt /\ ret.fn = "Metapr") =>
        LET shaped == IF obj.choice = "uniform" /\ Clamped
                      THEN NUMERICAL_ZERO
                      ELSE Mul(PhiFactor, ShapePrior)
        IN ret.val = IF impl = "catede" THEN Mul(shaped, ClassProduct) ELSE shaped

C8_Witness ==
    /\ KLBuilt /\ ret.fn = "Metapr" /\ impl = "catede" /\ obj.choice = "scaled"
    /\ obj.class_A.Metapr # One /\ obj.class_B.Metapr # One
    /\ ret.val = Mul(ShapePrior, ClassProduct)

WithinTolOfBound(xs) ==
    \E i \in DOMAIN xs : \E j \in 1..2 : FPLeq(FPAbsDiff(xs[i], BOUND_DIR[j]), TOL)

\* C10: when a coordinate of the optimiser's result is within TOL of a
\* bound, in a one- or two-parameter problem, myMinimizer warns, and the
\* result vector is returned all the same
C10_SaturationWarning ==
    (pc = "returned" /\ WithinTolOfBound(opt.x)) =>
        /\ opt.warned
        /\ err = "none"
        /\ ret.val = opt.x

C10_Witness ==
    /\ pc = "returned" /\ opt.n = 2 /\ opt.warned
    /\ opt.x[1] = INIT_GUESS /\ opt.x[2] = FPSub(BOUND_DIR[2], TOL)
    /\ ret.val = opt.x

\* every coordinate differs from both bounds by more than TOL
FartherThanTol(xs) == ~WithinTolOfBound(xs)

\* C11: when every coordinate of the result lies inside the bound interval
\* and differs from both bounds by more than TOL, myMinimizer emits no
\* saturation warning
C11_NoWarningInside ==
    (pc = "returned" /\ FartherThanTol(opt.x)) => ~opt.warned

\* C12: when the optimiser stops without converging, the call still returns
\* the parameter vector and the non-convergence is reported as a warning
C12_NonConvergenceWarned ==
    (pc = "returned" /\ ~opt.success) =>
        /\ err = "none"
        /\ ret.val = opt.x
        /\ opt.warned

OneDimMAP == OneDimEntries("catede")
MAP == OneDimMAP \cup TwoDimMAP

\* C13: each MAP call invokes the bounded optimiser exactly once, started
\* from INIT_GUESS in every parameter; once myMinimizer has returned, be the
\* result unconverged or saturated, or once the objective has raised, nothing
\* in the call runs again: the call is over
C13_SingleRun ==
    /\ [](call.entry \in MAP =>
            /\ opt.invoked /\ opt.runs = 1
            /\ (pc = "minimize" /\ opt.nfev = 0)
                  => opt.x = [i \in 1..opt.n |-> INIT_GUESS])
    /\ [][(call.entry \in MAP /\ pc \in {"returned", "raised"})
            => (pc' = "idle" /\ opt' = NoOpt)]_vars

C13_Witness ==
    /\ pc = "returned" /\ call.entry = "optimal_equal_KLdiv_param"
    /\ ~opt.success /\ opt.warned /\ opt.runs = 1

\* C14: a MAP entry point returns as many coordinates as the problem has
\* parameters (1 for the one-parameter estimators, 2 for the two-parameter
\* one), every coordinate is bounded by the same interval BOUND_DIR and lies
\* inside it, and INIT_GUESS lies inside it
C14_ResultInBounds ==
    /\ InBounds(INIT_GUESS, BOUND_DIR)
    /\ (call.entry \in MAP /\ opt.invoked) =>
          /\ opt.n = (IF call.entry \in TwoDimMAP THEN 2 ELSE 1)
          /\ DOMAIN opt.bounds = 1..opt.n
          /\ \A i \in 1..opt.n : opt.bounds[i] = BOUND_DIR
    /\ (call.entry \in MAP /\ pc = "returned") =>
          /\ ret.val = opt.x
          /\ DOMAIN ret.val = 1..opt.n
          /\ \A i \in 1..opt.n : InBounds(ret.val[i], BOUND_DIR)

C14_Witness ==
    /\ pc = "returned" /\ call.entry = "optimal_KL_divergence_params"
    /\ DOMAIN ret.val = 1..2
    /\ ret.val[1] = BOUND_DIR[1] /\ ret.val[2] = BOUND_DIR[2]

\* a well-formed CompactCounts: N and Kobs are those of its nn and ff
WellFormed(c) ==
    /\ c.N = Dot(c.nn, c.ff)
    /\ c.Kobs = Observed(c.nn, c.ff)
    /\ c \in CompSet(c.K)
InCall == pc \notin {"idle"}

\* C15: the CompactCounts object, or the paired object with its compact_1
\* and compact_2, is only read during a call: while a call is in progress no
\* step (objective, gradient, optimiser iteration, return) changes it, so K,
\* Kobs, N, nn and ff after any sequence of evaluations are those the call
\* was given, and the object a call holds is a sample as it was constructed.
C15_CountsOnlyRead ==
    /\ [](InCall /\ comp # NoComp =>
            IF "nn" \in DOMAIN comp THEN WellFormed(comp)
            ELSE WellFormed(comp.compact_1) /\ WellFormed(comp.compact_2))
    /\ [][(InCall /\ pc' # "idle") => comp' = comp]_vars

\* the two-parameter KL optimiser has returned after several evaluations of
\* the objective and the gradient on a paired object
C15_Witness ==
    /\ pc = "returned"
    /\ call.entry = "optimal_KL_divergence_params"
    /\ opt.nfev >= 2 /\ opt.njev >= 2
    /\ comp \in MapPairs(call.K)

\* C16: calls share no mutable state, so each call yields the result and the
\* warnings it yields when run alone: a call run alone from a fresh process
\* shows the saturation warning exactly when its result is saturated.
\* Refuted: the warning is shown once for each process, the key of the first
\* one staying in the module's warning registry for the calls that follow.
C16_SameWarningsAsAlone ==
    pc = "returned" => (opt.shown <=> Saturated(opt.x))

\* the special function of each method, and the order of its derivative
GmmOf == [log |-> "LogGmm", log_jac |-> "diGmm", log_hess |-> "triGmm"]
OrderOf == [log |-> 0, log_jac |-> 1, log_hess |-> 2]
BetaEvaluated == pc = "evaluated" /\ call.entry = "BetaMultivariate_symmDir"
PolyaEvaluated == pc = "evaluated" /\ call.entry = "Polya"
BetaValue(K, m) ==
    CASE m = "log"      -> BetaMultivariate_symmDir_log(K, 0)
      [] m = "log_jac"  -> BetaMultivariate_symmDir_log_jac(K, 0)
      [] m = "log_hess" -> BetaMultivariate_symmDir_log_hess(K, 0)
\* sum_k ff[k] * f(nn[k] + a) - c * f(N + K*a)
Unnormalized(c, f, coef) ==
    LcSub(_ffsum(c, f, 0), Term(RInt(coef), Gmm(f, c.K, c.N, 0)))

\* C17 as stated: with x = a and X = K*a the helper returns K*f(x) - f(X) for
\* f = logGamma (log), digamma (log_jac) and trigamma (log_hess).
C17_Original ==
    BetaEvaluated =>
        ret.val = LcSub(Term(RInt(call.K), Gmm(GmmOf[ret.fn], 1, 0, 0)),
                        Term(RInt(1), Gmm(GmmOf[ret.fn], call.K, 0, 0)))

\* C17: the helper returns K*logGamma(x) - logGamma(X) for log,
\* K*digamma(x) - K*digamma(X) for log_jac and K*trigamma(x) - K^2*trigamma(X)
\* for log_hess, each the derivative in a of the one before, and Polya
\* subtracts exactly the helper's value: adding it back leaves the
\* ff-weighted sum over the counts minus the K^n-weighted term in N + K*a.
C17_BetaHelper ==
    /\ BetaEvaluated =>
          /\ ret.val = LcSub(Term(RInt(call.K), Gmm(GmmOf[ret.fn], 1, 0, 0)),
                             Term(RInt(IntPow(call.K, OrderOf[ret.fn])),
                                  Gmm(GmmOf[ret.fn], call.K, 0, 0)))
          /\ ret.fn = "log_jac" => ret.val = DerivBy(BetaValue(call.K, "log"), 0)
          /\ ret.fn = "log_hess" => ret.val = DerivBy(BetaValue(call.K, "log_jac"), 0)
    /\ PolyaEvaluated =>
          LcAdd(ret.val, BetaValue(comp.K, ret.fn))
              = Unnormalized(comp, GmmOf[ret.fn], IntPow(comp.K, OrderOf[ret.fn]))

\* the second derivative of the helper has been evaluated for K > 1, where
\* K^2 differs from K and from 1
C17_Witness ==
    BetaEvaluated /\ ret.fn = "log_hess" /\ call.K = 3

\* the Polya gradient has been evaluated on a sample with unobserved
\* categories, whose term in f(a) merges with the helper's
C17_WitnessPolya ==
    PolyaEvaluated /\ ret.fn = "log_jac" /\ comp.nn[1] = 0

\* C18: equalDirKLdiv( a, K ).aPrioriExpec() is ((K-1)/K)/a with a true
\* division, 0.5/a for K = 2, and Metapr, Metapr_jac, Metapr_hess are that
\* constant times a^-2, -2*a^-3 and 6*a^-4, for every a > 0.
\* Refuted for an integer a: np.power raises instead of returning a value.
EqualKLConst == Rat(call.K - 1, call.K)
EqualKLClaimed ==
    [aPrioriExpec |-> Term(EqualKLConst, Pow(-1, 1, 0, 0)),
     Metapr      |-> Term(EqualKLConst, Pow(-2, 1, 0, 0)),
     Metapr_jac  |-> Term(RMul(RInt(-2), EqualKLConst), Pow(-3, 1, 0, 0)),
     Metapr_hess |-> Term(RMul(RInt(6), EqualKLConst), Pow(-4, 1, 0, 0))]
C18_EqualKLExpec ==
    (call.entry = "equalDirKLdiv" /\ pc # "idle") =>
        /\ pc = "evaluated"
        /\ ret.fn \in DOMAIN EqualKLClaimed => ret.val = EqualKLClaimed[ret.fn]
        /\ (call.K = 2 /\ ret.fn = "aPrioriExpec") =>
               ret.val = Term(<<1, 2>>, Pow(-1, 1, 0, 0))

\* the part of C18 that holds: for a floating-point a the values are those
\* claimed
C18_FloatCase ==
    (call.entry = "equalDirKLdiv" /\ pc # "idle" /\ call.var = "float64") =>
        /\ pc = "evaluated"
        /\ ret.fn \in DOMAIN EqualKLClaimed => ret.val = EqualKLClaimed[ret.fn]
        /\ (call.K = 2 /\ ret.fn = "aPrioriExpec") =>
               ret.val = Term(<<1, 2>>, Pow(-1, 1, 0, 0))

OneDimEvaluated ==
    pc = "evaluated" /\ call.entry \in OneDimClasses("catede")

SixObjectives == OneDimMAP \cup {"optimal_KL_divergence_params"}
MatchingClass ==
    [optimal_entropy_param      |-> "DirEntr",
     optimal_crossentropy_param |-> "DirCrossEntr",
     optimal_simpson_param      |-> "DirSimps",
     optimal_equal_KLdiv_param  |-> "equalDirKLdiv"]
Pairing(entry, c) ==
    CASE entry = "optimal_equal_KLdiv_param" ->
            <<[v |-> 0, sample |-> c.compact_1], [v |-> 0, sample |-> c.compact_2]>>
      [] entry = "optimal_KL_divergence_params" ->
            <<[v |-> 0, sample |-> c.compact_1], [v |-> 1, sample |-> c.compact_2]>>
      [] OTHER -> <<[v |-> 0, sample |-> c]>>
PolyaTerms(entry, c) ==
    [i \in 1..Len(Pairing(entry, c)) |->
        Polya_log(Pairing(entry, c)[i].v, Pairing(entry, c)[i].sample)]
\* the terms of an objective value: its metaprior term, if any, and the rest
HasMetapr(entry) == entry # "optimal_dirichlet_param"
TermsOf(f) == f.x.terms
MetaprTerm(f) == Head(TermsOf(f))
LikelihoodTerms(entry, f) == IF HasMetapr(entry) THEN Tail(TermsOf(f)) ELSE TermsOf(f)
\* the derivative of the metaprior term with respect to var[j]
DMetapr(m, j) ==
    IF m.op = "log" THEN DLogOf(m, j)
    ELSE MetaprCall(m, "logMetapr_jac", j)
\* the derivatives with respect to var[j] of the terms of f, those that vanish
\* identically left out
DTerms(entry, f, j) ==
    (IF HasMetapr(entry) THEN <<DMetapr(MetaprTerm(f), j)>> ELSE <<>>)
    \o SelectSeq([i \in 1..Len(LikelihoodTerms(entry, f)) |->
                     DerivBy(LikelihoodTerms(entry, f)[i], j)],
                 LAMBDA d : d # LcZero)
GradientEvaluated == pc = "step" /\ call.entry \in SixObjectives

C20_WitnessShared ==
    /\ GradientEvaluated
    /\ call.entry = "optimal_equal_KLdiv_param"
    /\ Len(TermsOf(opt.g[1])) = 3

\* C27: the two failures of `scaling` are told apart by the kind of the
\* error: a scalar scaling <= 0 ends in ValueError, a scaling that cannot be
\* converted to a scalar ends in TypeError.
\* Refuted: the ValueError raised inside the try block is caught by its bare
\* `except` and replaced by the TypeError.
C27_ErrorKinds ==
    (/\ call.entry \in {"DirKLdiv", "DirHelldiv"}
     /\ AcceptsScaling(call.choice))
        => /\ (call.kw.kind = "scalar" /\ call.kw.v[1] <= 0)
                 => (Raised /\ err = "ValueError")
           /\ (call.kw.kind = "text"
                \/ (call.kw.kind = "seq" /\ Len(call.kw.v) # 1))
                 => (Raised /\ err = "TypeError")

MAPRunning == call.entry \in MAP /\ pc \in {"minimize", "gradient", "step"}
MAPEnded == pc \in {"returned", "raised"}

\* C26: every MAP call terminates: the optimiser makes at most MAX_ITER
\* iterations, at the cap the only step left is the return of the current
\* parameter vector, and a call that has started reaches its return or its
\* exception.
C26_Terminates ==
    /\ [](opt.iter <= MAX_ITER /\ opt.iter <= IterCap)
    /\ [][(pc = "step" /\ opt.iter = IterCap)
            => (pc' = "returned" /\ ret'.val = opt'.x /\ opt'.iter = opt.iter)]_vars
    /\ (MAPRunning ~> MAPEnded)

\* the optimiser has stopped at the iteration cap without converging and its
\* current vector has been returned
C26_Witness ==
    /\ pc = "returned" /\ call.entry \in MAP
    /\ opt.iter = IterCap /\ ~opt.success
    /\ ret.val = opt.x

NBinsEvaluated == pc = "evaluated" /\ call.entry = "empirical_n_bins"
\* categories1 / size1 <= categories2 / size2
RatioLeq(c1, s1, c2, s2) == c1 * s2 <= c2 * s1

\* C24 as stated: the bin count shrinks as categories/size grows: an input of
\* larger ratio never gets more bins.
C24_Original ==
    NBinsEvaluated =>
        \A s2 \in 1..MaxSize, c2 \in 1..MaxCategories :
            RatioLeq(call.K, call.size, c2, s2) => ret.val >= empirical_n_bins(s2, c2)

\* C24: the bin count grows with categories/size: an input of larger ratio
\* never gets fewer bins, and one of smaller ratio never gets more.
C24_GrowsWithRatio ==
    NBinsEvaluated =>
        \A s2 \in 1..MaxSize, c2 \in 1..MaxCategories :
            /\ RatioLeq(call.K, call.size, c2, s2) => ret.val <= empirical_n_bins(s2, c2)
            /\ RatioLeq(c2, s2, call.K, call.size) => ret.val >= empirical_n_bins(s2, c2)

\* 3 categories for a sample of size 2: 22.5 is rounded to 22, more than the
\* 10 bins of ratio 1 and fewer than the 40 of ratio 2
C24_Witness ==
    /\ NBinsEvaluated /\ call.K = 3 /\ call.size = 2 /\ ret.val = 22
    /\ empirical_n_bins(1, 1) = 10 /\ empirical_n_bins(1, 2) = 40

\* C25: empirical_n_bins returns an integer between 1 and 200.
C25_BinsInRange ==
    NBinsEvaluated => (ret.val \in Int /\ 1 <= ret.val /\ ret.val <= 200)

\* the cap is in force: 10 * (categories/size)^2 is above 200
C25_Witness ==
    /\ NBinsEvaluated /\ ret.val = 200
    /\ 10 * call.K * call.K > 200 * call.size * call.size

\* the floor is in force: 10 * (categories/size)^2 rounds to 0
C25_WitnessFloor ==
    /\ NBinsEvaluated /\ ret.val = 1
    /\ 20 * call.K * call.K < call.size * call.size

\* what the shape prior has added to the entries of the returned gradient or
\* Hessian: the returned value less the phi term and the class terms
JacReturned == Built /\ ret.fn = "logMetapr_jac"
HessReturned == Built /\ ret.fn = "logMetapr_hess"
ClassJac == <<class_logMetapr_jac("A"), class_logMetapr_jac("B")>>
ClassHess ==
    <<<<class_logMetapr_hess("A"), LcZero>>, <<LcZero, class_logMetapr_hess("B")>>>>
PriorJac(i) ==
    LcSub(LcSub(ret.val[i],
                log_marginaliz_phi_jac(obj, _PRIOR_CHOICE[obj.choice].use_phi)[i]),
          ClassJac[i])
PriorHess(i, j) ==
    LcSub(LcSub(ret.val[i][j],
                log_marginaliz_phi_hess(obj, _PRIOR_CHOICE[obj.choice].use_phi)[i][j]),
          ClassHess[i][j])

\* C21: for choice 'log-uniform' what the shape prior adds to the gradient
\* and to every entry of the Hessian of logMetapr is scaling times the
\* entry of - log(D) that log_marginaliz_phi_jac / log_marginaliz_phi_hess
\* computes where D < log K, for every scaling > 0.
C21_ScaledChainRule ==
    /\ (JacReturned /\ obj.choice = "log-uniform") =>
          \A i \in 1..2 : PriorJac(i) = LcScale(ScalingCoef(obj), phi_jac_masked[i])
    /\ (HessReturned /\ obj.choice = "log-uniform") =>
          \A i, j \in 1..2 :
              PriorHess(i, j) = LcScale(ScalingCoef(obj), phi_hess_masked[i][j])

\* the part of C21 the code does satisfy: the gradient and the mixed entries
C21_GradientAndMixed ==
    /\ (JacReturned /\ obj.choice = "log-uniform") =>
          \A i \in 1..2 : PriorJac(i) = LcScale(ScalingCoef(obj), phi_jac_masked[i])
    /\ (HessReturned /\ obj.choice = "log-uniform") =>
          \A i, j \in 1..2 :
              i # j => PriorHess(i, j) = LcScale(ScalingCoef(obj), phi_hess_masked[i][j])

\* at scaling 1 the diagonal entries agree too
C21_UnitScaling ==
    (HessReturned /\ obj.choice = "log-uniform" /\ ScalingOf(obj.extra) = 1) =>
        \A i \in 1..2 : PriorHess(i, i) = phi_hess_masked[i][i]

\* the diagonal entry the code adds: scaling * dM/D + (M/D)^2
C21_DiagonalAdded ==
    (HessReturned /\ obj.choice = "log-uniform") =>
        PriorHess(1, 1) =
            LcAdd(Term(ScalingCoef(obj), MDiv(Var("dM_A"), Var("D"))),
                  Term(RInt(1), MPow(MDiv(Var("M_A"), Var("D")), 2)))

\* the gradient and the Hessian as the shape-prior step left them: the
\* returned value less the class terms added after it
StepJac(i) == LcSub(ret.val[i], ClassJac[i])
StepHess(i, j) == LcSub(ret.val[i][j], ClassHess[i][j])
Below == obj.D < Log2(obj.K)
Between == Log2(obj.K) <= obj.D /\ obj.D < CUTOFFRATIO * Log2(obj.K)
Above == obj.D >= CUTOFFRATIO * Log2(obj.K)

\* C22: for choice 'uniform' the shape-prior step leaves the phi entries
\* unchanged where D < log K, sets every entry of the gradient and of the
\* Hessian to NUMERICAL_ZERO where log K <= D < CUTOFFRATIO * log K and to
\* - NUMERICAL_INFTY where D >= CUTOFFRATIO * log K; nothing is raised and
\* every value is finite (D > 0 where it divides).
C22_UniformClamp ==
    /\ (call.entry \in {"DirKLdiv", KLHessEntry(impl)} /\ call.choice = "uniform")
          => ~Raised
    /\ (JacReturned /\ obj.choice = "uniform") =>
          \A i \in 1..2 :
              /\ Below => (StepJac(i) = phi_jac_masked[i] /\ obj.D > 0)
              /\ Between => StepJac(i) = ZeroEntry
              /\ Above => StepJac(i) = NegInftyEntry
    /\ (HessReturned /\ obj.choice = "uniform") =>
          \A i, j \in 1..2 :
              /\ Below => (StepHess(i, j) = phi_hess_masked[i][j] /\ obj.D > 0)
              /\ Between => StepHess(i, j) = ZeroEntry
              /\ Above => StepHess(i, j) = NegInftyEntry

\* the Hessian asked between log K and the cutoff, at D = log K itself
C22_Witness ==
    /\ HessReturned /\ obj.choice = "uniform" /\ obj.D = Log2(obj.K)
    /\ StepHess(1, 2) = ZeroEntry
\* the gradient asked at the cutoff
C22_WitnessCutoff ==
    /\ JacReturned /\ obj.choice = "uniform" /\ obj.D = CUTOFFRATIO * Log2(obj.K)
    /\ StepJac(1) = NegInftyEntry
\* the Hessian asked below log K
C22_WitnessBelow ==
    /\ HessReturned /\ obj.choice = "uniform" /\ Below
    /\ StepHess(1, 1) = phi_hess_masked[1][1]

KLHessEvaluated == pc = "evaluated" /\ call.entry = KLHessEntry(impl)
EqualHessEvaluated ==
    pc = "evaluated" /\ call.entry = "log_equal_KLdiv_meta_posterior_hess"
\* what has been added up in entry [i, j] of the returned Hessian
Added(i, j) == ret.val[i][j].terms

\* C23: the Hessian of the two-parameter KL log-posterior is the metaprior
\* Hessian with Polya(a, compact_1).log_hess added to [0,0] and
\* Polya(b, compact_2).log_hess to [1,1], the entries [0,1] and [1,0] being
\* the metaprior's alone; the equal-prior-KL Hessian is the metaprior Hessian
\* plus both Polya Hessians at the shared parameter.
C23_PolyaOnDiagonal ==
    /\ KLHessEvaluated =>
          /\ Added(1, 1) = <<logMetapr_hess(obj)[1][1], Polya_log_hess(0, comp.compact_1)>>
          /\ Added(2, 2) = <<logMetapr_hess(obj)[2][2], Polya_log_hess(1, comp.compact_2)>>
          /\ Added(1, 2) = <<logMetapr_hess(obj)[1][2]>>
          /\ Added(2, 1) = <<logMetapr_hess(obj)[2][1]>>
    /\ EqualHessEvaluated =>
          ret.val.terms =
              <<OneDimMethod("equalDirKLdiv", call.K, 0, "logMetapr_hess"),
                Polya_log_hess(0, comp.compact_1), Polya_log_hess(0, comp.compact_2)>>

\* the KL Hessian of two different samples, under a prior with a mixed term
C23_Witness ==
    /\ KLHessEvaluated /\ call.choice = "log-uniform"
    /\ comp.compact_1 # comp.compact_2
    /\ Len(Added(1, 1)) = 2 /\ Len(Added(1, 2)) = 1
    /\ Added(1, 2)[1] # LcZero
\* the equal-prior Hessian of two different samples
C23_WitnessEqual ==
    /\ EqualHessEvaluated /\ comp.compact_1 # comp.compact_2
    /\ Len(ret.val.terms) = 3

\* C28: the matrix returned by the two-dimensional logMetapr_hess, and the KL
\* log-posterior Hessian built on it, have equal entries [0,1] and [1,0], for
\* each prior choice, in each region of D and for each scaling.
C28_Symmetric ==
    /\ HessReturned => ret.val[1][2] = ret.val[2][1]
    /\ KLHessEvaluated =>
          /\ ret.val[1][2] = ret.val[2][1]
          /\ logMetapr_hess(obj)[1][2] = logMetapr_hess(obj)[2][1]

\* the prior 'scaled' at scaling 2: the mixed entry is - 2 M_B M_A / A^2
C28_Witness ==
    /\ HessReturned /\ obj.choice = "scaled" /\ ScalingOf(obj.extra) = 2
    /\ ret.val[1][2] =
          Term(RInt(-2), MMul(MMul(Var("M_B"), Var("M_A")), MPow(Var("A"), -2)))
    /\ ret.val[2][1] = ret.val[1][2]
\* the KL Hessian under 'log-uniform' at scaling 2 below log K: the phi term
\* and the prior both contribute to the mixed entries
C28_WitnessLogUniform ==
    /\ KLHessEvaluated /\ obj.choice = "log-uniform" /\ ScalingOf(obj.extra) = 2
    /\ Below
    /\ Added(1, 2)[1] =
          Term(RInt(3), MDiv(MMul(Var("M_A"), Var("M_B")), MPow(Var("D"), 2)))

====
